---- MODULE Spec2Model ----
(***************************************************************************)
(* A model of the text core of the FLTK front end (src/fe-fltk/fe-fltk.cpp):*)
(* the markup transcoder append_text with the per-session text and style   *)
(* buffers, the spell annotator with its dictionary adapter, and the color *)
(* palette with its file colors.conf.                                      *)
(*                                                                         *)
(* Strings are sequences of byte values (0..255, never 0 inside a C        *)
(* string).  A style tag is the byte 'A' + slot, as the code writes it.    *)
(***************************************************************************)
EXTENDS Integers, Sequences, FiniteSets, TLC

(***************************************************************************)
(* Bounds of the model.                                                    *)
(***************************************************************************)
\* A message of the transcoder specification is made of at most MaxFrags fragments.
MaxFrags == 3
\* append_text is called on a session while its two buffers together hold at most
\* MaxBuf bytes.
MaxBuf == 2
\* The text of the input field has at most MaxChars characters.
MaxChars == 3
\* A dictionary has NumSugg different strings to suggest.
NumSugg == 12

(***************************************************************************)
(* Bytes the code names.                                                   *)
(***************************************************************************)
StyleA == 65
N_REGION == 19
MAX_COL == 41
HYPERLINK == 57
NL == 10
SP == 32

Sessions == {"s1", "s2"}

\* What strftime can leave in tbuf: nothing (it returned 0, or localtime failed),
\* or a formatted time such as "9:".
Clock == {<< >>, <<57, 58>>}

RECURSIVE Repeat(_, _)
Repeat(b, n) == IF n <= 0 THEN << >> ELSE <<b>> \o Repeat(b, n - 1)

\* s[i] of a C string: the terminating NUL past the end.
At(s, i) == IF i >= 1 /\ i <= Len(s) THEN s[i] ELSE 0

g_ascii_isdigit(b) == b >= 48 /\ b <= 57
g_ascii_isspace(b) == b \in {32, 9, 10, 11, 12, 13}
g_ascii_tolower(b) == IF b >= 65 /\ b <= 90 THEN b + 32 ELSE b

\* g_ascii_strncasecmp (s + i, pre, Len(pre)) == 0
g_ascii_strncasecmp_eq(s, i, pre) ==
    \A k \in 1..Len(pre) :
        g_ascii_tolower(At(s, i + k - 1)) = g_ascii_tolower(pre[k])

\* strncmp (s + i, pre, Len(pre)) == 0
strncmp_eq(s, i, pre) ==
    \A k \in 1..Len(pre) : At(s, i + k - 1) = pre[k]

\* looks_like_url comparing with strncmp: an upper-case prefix is no URL.
looks_like_url_case_sensitive(s, i) ==
    /\ At(s, i) # 0
    /\ \/ strncmp_eq(s, i, <<104, 116, 116, 112, 58, 47, 47>>)
       \/ strncmp_eq(s, i, <<104, 116, 116, 112, 115, 58, 47, 47>>)
       \/ strncmp_eq(s, i, <<102, 116, 112, 58, 47, 47>>)
       \/ strncmp_eq(s, i, <<105, 114, 99, 58, 47, 47>>)
       \/ strncmp_eq(s, i, <<119, 119, 119, 46>>)

looks_like_url(s, i) ==
    /\ At(s, i) # 0
    /\ \/ g_ascii_strncasecmp_eq(s, i, <<104, 116, 116, 112, 58, 47, 47>>)
       \/ g_ascii_strncasecmp_eq(s, i, <<104, 116, 116, 112, 115, 58, 47, 47>>)
       \/ g_ascii_strncasecmp_eq(s, i, <<102, 116, 112, 58, 47, 47>>)
       \/ g_ascii_strncasecmp_eq(s, i, <<105, 114, 99, 58, 47, 47>>)
       \/ g_ascii_strncasecmp_eq(s, i, <<119, 119, 119, 46>>)

RECURSIVE SumBytes(_)
SumBytes(s) == IF s = << >> THEN 0 ELSE Head(s) + SumBytes(Tail(s))

\* The remainder of C, which has the sign of the dividend.
c_rem(a, n) == IF a >= 0 THEN a % n ELSE 0 - ((0 - a) % n)

\* The bytes of the nick summed as plain (signed) char.
RECURSIVE SumSignedBytes(_)
SumSignedBytes(s) ==
    IF s = << >> THEN 0
    ELSE (IF Head(s) >= 128 THEN Head(s) - 256 ELSE Head(s)) + SumSignedBytes(Tail(s))

hash_nick_color_signed_char(nick) == c_rem(SumSignedBytes(nick), 16)

\* The bytes are summed as unsigned char, so the sum is not negative.
hash_nick_color(nick) == c_rem(SumBytes(nick), 16)

\* The style run of the timestamp prefix without the tag of the space.
stamp_styles_no_space(tb) == Repeat(StyleA, Len(tb))

\* The style run of the timestamp prefix: strlen (tbuf) + 1 tags 'A'.
stamp_styles(tb) == Repeat(StyleA, Len(tb) + 1)

\* style_for_state with the bold and the underline region exchanged.
style_for_state_regions_swapped(hyperlink, ctcp, f, b, u) ==
    IF hyperlink THEN StyleA + HYPERLINK
    ELSE IF ctcp /\ f < 0 /\ ~b /\ ~u THEN StyleA + 2
    ELSE LET base == IF f >= 0 /\ f < 16 THEN 3 + f ELSE 0
         IN  IF b THEN StyleA + base + N_REGION * 2
             ELSE IF u THEN StyleA + base + N_REGION
             ELSE StyleA + base

\* style_for_state choosing the CTCP slot without looking at in_ctcp.
style_for_state_ctcp_unchecked(hyperlink, ctcp, f, b, u) ==
    IF hyperlink THEN StyleA + HYPERLINK
    ELSE IF f < 0 /\ ~b /\ ~u THEN StyleA + 2
    ELSE LET base == IF f >= 0 /\ f < 16 THEN 3 + f ELSE 0
         IN  IF b THEN StyleA + base + N_REGION
             ELSE IF u THEN StyleA + base + N_REGION * 2
             ELSE StyleA + base

\* style_for_state with the colors of a region starting right after its default.
style_for_state_colors_from_one(hyperlink, ctcp, f, b, u) ==
    IF hyperlink THEN StyleA + HYPERLINK
    ELSE IF ctcp /\ f < 0 /\ ~b /\ ~u THEN StyleA + 2
    ELSE LET base == IF f >= 0 /\ f < 16 THEN 1 + f ELSE 0
         IN  IF b THEN StyleA + base + N_REGION
             ELSE IF u THEN StyleA + base + N_REGION * 2
             ELSE StyleA + base

\* style_for_state looking at underline before bold.
style_for_state_underline_first(hyperlink, ctcp, f, b, u) ==
    IF hyperlink THEN StyleA + HYPERLINK
    ELSE IF ctcp /\ f < 0 /\ ~b /\ ~u THEN StyleA + 2
    ELSE LET base == IF f >= 0 /\ f < 16 THEN 3 + f ELSE 0
         IN  IF u THEN StyleA + base + N_REGION * 2
             ELSE IF b THEN StyleA + base + N_REGION
             ELSE StyleA + base

style_for_state(hyperlink, ctcp, f, b, u) ==
    IF hyperlink THEN StyleA + HYPERLINK
    ELSE IF ctcp /\ f < 0 /\ ~b /\ ~u THEN StyleA + 2
    ELSE LET base == IF f >= 0 /\ f < 16 THEN 3 + f ELSE 0
         IN  IF b THEN StyleA + base + N_REGION
             ELSE IF u THEN StyleA + base + N_REGION * 2
             ELSE StyleA + base

\* build_style_table: the indices of the entries it assigns.
build_style_table ==
    {0, 1, 2} \cup { 3 + i : i \in 0..15 }
        \cup {N_REGION + 0} \cup { N_REGION + 3 + i : i \in 0..15 }
        \cup {2 * N_REGION + 0} \cup { 2 * N_REGION + 3 + i : i \in 0..15 }
        \cup {HYPERLINK}

\* The number of entries of style_table that highlight_data is given.
STYLE_TABLE_SIZE == 58

(***************************************************************************)
(* Nick detection (the block before the scan).  Offsets are the code's     *)
(* 0-based offsets into msg; index i of the model is offset i - 1.         *)
(***************************************************************************)
RECURSIVE skip_blanks(_, _)
skip_blanks(s, i) ==
    IF At(s, i) = SP \/ At(s, i) = 9 THEN skip_blanks(s, i + 1) ELSE i

RECURSIVE nick_end_bracket(_, _)
nick_end_bracket(s, i) ==
    IF At(s, i) # 0 /\ At(s, i) # 62 /\ At(s, i) # SP
    THEN nick_end_bracket(s, i + 1) ELSE i

RECURSIVE nick_end_star(_, _)
nick_end_star(s, i) ==
    IF At(s, i) # 0 /\ At(s, i) # SP THEN nick_end_star(s, i + 1) ELSE i

NoNick == [start |-> -1, len |-> 0, color |-> -1]

detect_nick(s) ==
    LET i == skip_blanks(s, 1)
    IN  IF At(s, i) = 60
        THEN LET b == i + 1
                 e == nick_end_bracket(s, b)
             IN  IF At(s, e) = 62
                 THEN [start |-> b - 1, len |-> e - b,
                       color |-> hash_nick_color(SubSeq(s, b, e - 1))]
                 ELSE NoNick
        ELSE IF At(s, i) = 42 /\ At(s, i + 1) = SP
        THEN LET b == i + 2
                 e == nick_end_star(s, b)
             IN  IF e > b
                 THEN [start |-> b - 1, len |-> e - b,
                       color |-> hash_nick_color(SubSeq(s, b, e - 1))]
                 ELSE NoNick
        ELSE NoNick

\* "\001ACTION "
ActionMarker == <<1, 65, 67, 84, 73, 79, 78, 32>>

is_action(s) == At(s, 1) = 1 /\ \A k \in 1..8 : At(s, k) = ActionMarker[k]

\* The action body with its closing delimiter left in.
action_body_with_delimiter(s) == SubSeq(s, 9, Len(s))

\* The bytes of the action body that are emitted: all but a closing delimiter.
action_body(s) ==
    LET body == SubSeq(s, 9, Len(s))
        len  == Len(body)
    IN  IF len > 0 /\ body[len] = 1 THEN SubSeq(body, 1, len - 1) ELSE body

\* The position after "fg[,bg]" when s[i] is the first byte after the introducer.
skip_digits(s, i) ==
    IF g_ascii_isdigit(At(s, i))
    THEN IF g_ascii_isdigit(At(s, i + 1)) THEN i + 2 ELSE i + 1
    ELSE i

\* The color branch without the step over the introducer.
after_color_introducer_kept(s, i) ==
    LET q == skip_digits(s, i)
    IN  IF At(s, q) = 44 THEN skip_digits(s, q + 1) ELSE q

after_color(s, i) ==
    LET q == skip_digits(s, i + 1)
    IN  IF At(s, q) = 44 THEN skip_digits(s, q + 1) ELSE q

\* The end of a URL run that starts at i: the first byte that is the NUL, white
\* space or below 0x20.
RECURSIVE url_end(_, _)
url_end(s, i) ==
    IF At(s, i) # 0 /\ ~g_ascii_isspace(At(s, i)) /\ At(s, i) >= 32
    THEN url_end(s, i + 1) ELSE i

(***************************************************************************)
(* State.                                                                  *)
(***************************************************************************)
VARIABLES
    hex_stamp_text,     \* prefs.hex_stamp_text
    session_ui_map,     \* session -> [buffer, style_buffer]
    pc,                 \* position of the running append_text call, or "idle"
    sess,               \* the session of the running call
    msg, tbuf, out, styles,
    nick_start, nick_len, nick_color, out_pos,
    p, in_ctcp, fg, bold, underline

text_vars == <<hex_stamp_text, session_ui_map, pc, sess, msg, tbuf, out, styles,
               nick_start, nick_len, nick_color, out_pos,
               p, in_ctcp, fg, bold, underline>>

VARIABLES
    hex_gui_input_spell,    \* prefs.hex_gui_input_spell
    hex_text_spell_langs,   \* prefs.hex_text_spell_langs, split at ", \t"
    installed,              \* the languages the enchant broker can resolve
    have_enchant,
    spell_broker,
    spell_dicts,            \* the loaded dictionaries, by language
    dict_session,           \* language -> words added to its session vocabulary
    dict_personal,          \* language -> words added to its personal word list
    spell_session_ignores,
    enchant_live,           \* what enchant holds for the handles the code got from it
    ret                     \* the last spell call, or the last call of a function
                            \* looked at on its own: its name, arguments and result

spell_vars == <<hex_gui_input_spell, hex_text_spell_langs, installed, have_enchant, spell_broker,
                spell_dicts, dict_session, dict_personal, spell_session_ignores,
                enchant_live, ret>>

VARIABLES
    input_value,            \* the text of the input box
    input_position,         \* its cursor, a byte offset
    mark_pos                \* SpellInput::mark_pos

input_vars == <<input_value, input_position, mark_pos>>

VARIABLES
    palette_colors,             \* index -> <<r, g, b>>
    default_palette_colors,
    palette_defaults_saved,
    colors_conf,                \* the lines of colors.conf, or NoFile
    palette_call                \* the last palette call

palette_vars == <<palette_colors, default_palette_colors, palette_defaults_saved,
                  colors_conf, palette_call>>

VARIABLES
    userlist_idle_scheduled,    \* the latch
    idle_sources                \* the userlist_idle_cb sources GLib holds

userlist_vars == <<userlist_idle_scheduled, idle_sources>>

vars == <<text_vars, spell_vars, palette_vars, userlist_vars, input_vars>>

non_text_vars == <<spell_vars, palette_vars, userlist_vars, input_vars>>
non_spell_vars == <<text_vars, palette_vars, userlist_vars, input_vars>>
non_palette_vars == <<text_vars, spell_vars, userlist_vars, input_vars>>

scan_state == <<in_ctcp, fg, bold, underline>>
nick_state == <<nick_start, nick_len, nick_color>>
call_frame == <<sess, msg, tbuf, nick_start, nick_len, nick_color>>

NoSession == "none"

\* users maps a nick to its label, here to the prefix of the label; user_browser is
\* the rows of the browser.
NewUI == [buffer |-> << >>, style_buffer |-> << >>,
          users |-> << >>, user_browser |-> << >>, userlist_dirty |-> FALSE]

\* session_ui_map before any session has a UI.
EmptyMap == [x \in {} |-> NewUI]

\* ensure_session_ui: the entry of the session, created empty when missing.
ensure_session_ui(m, s) ==
    IF s \in DOMAIN m THEN m
    ELSE [x \in DOMAIN m \cup {s} |-> IF x = s THEN NewUI ELSE m[x]]

UserlistIdle == userlist_idle_scheduled = FALSE /\ idle_sources = 0

TextIdle ==
    /\ session_ui_map = EmptyMap
    /\ UserlistIdle
    /\ pc = "idle"
    /\ sess = NoSession
    /\ msg = << >> /\ tbuf = << >> /\ out = << >> /\ styles = << >>
    /\ nick_start = -1 /\ nick_len = 0 /\ nick_color = -1 /\ out_pos = 0
    /\ p = 1 /\ in_ctcp = FALSE /\ fg = -1 /\ bold = FALSE /\ underline = FALSE

(***************************************************************************)
(* append_text, from its entry to the scan loop or past the action branch. *)
(* tb is what strftime produced (empty: nothing is prepended).             *)
(***************************************************************************)
\* The four flags left as the call before left them.
init_scan_state_kept == UNCHANGED <<in_ctcp, fg, bold, underline>>

\* Lines 1842-1845: the locals of the scan, initialised by their declarations.
init_scan_state ==
    /\ in_ctcp' = FALSE /\ fg' = -1
    /\ bold' = FALSE /\ underline' = FALSE

append_text_enter(s, text, tb) ==
    /\ pc = "idle"
    /\ session_ui_map' = ensure_session_ui(session_ui_map, s)
    /\ sess' = s
    /\ msg' = text
    /\ LET stamp  == hex_stamp_text /\ tb # << >>
           out0   == IF stamp THEN tb \o <<SP>> ELSE << >>
           sty0   == IF stamp THEN stamp_styles(tb) ELSE << >>
           nick   == detect_nick(text)
       IN  /\ tbuf' = IF stamp THEN tb ELSE << >>
           /\ nick_start' = nick.start
           /\ nick_len' = nick.len
           /\ nick_color' = nick.color
           /\ IF is_action(text)
              THEN /\ out' = out0 \o <<42, SP>> \o action_body(text)
                   /\ styles' = sty0 \o Repeat(StyleA + 1, 2 + Len(action_body(text)))
                   /\ out_pos' = Len(out0) + 2
                   /\ pc' = "tail"
                   /\ UNCHANGED <<p, scan_state>>
              ELSE /\ out' = out0
                   /\ styles' = sty0
                   /\ out_pos' = Len(out0)
                   /\ pc' = "scan"
                   /\ p' = 1
                   /\ init_scan_state
    /\ UNCHANGED hex_stamp_text
    /\ UNCHANGED non_text_vars

InLoop == pc = "scan" /\ p <= Len(msg)

ControlStep ==
    /\ p' = p + 1
    /\ UNCHANGED <<hex_stamp_text, session_ui_map, pc, call_frame, out, styles, out_pos>>
    /\ UNCHANGED non_text_vars

scan_ctcp ==
    /\ InLoop /\ msg[p] = 1
    /\ in_ctcp' = ~in_ctcp
    /\ ControlStep
    /\ UNCHANGED <<fg, bold, underline>>

\* The digits are consumed; nothing is assigned from them.
scan_color ==
    /\ InLoop /\ msg[p] = 3
    /\ p' = after_color(msg, p)
    /\ UNCHANGED <<hex_stamp_text, session_ui_map, pc, call_frame, out, styles,
                   out_pos, scan_state>>
    /\ UNCHANGED non_text_vars

scan_bold ==
    /\ InLoop /\ msg[p] = 2
    /\ bold' = ~bold
    /\ ControlStep
    /\ UNCHANGED <<in_ctcp, fg, underline>>

scan_underline ==
    /\ InLoop /\ msg[p] = 31
    /\ underline' = ~underline
    /\ ControlStep
    /\ UNCHANGED <<in_ctcp, fg, bold>>

scan_reverse ==
    /\ InLoop /\ msg[p] = 22
    /\ ControlStep
    /\ UNCHANGED scan_state

scan_reset ==
    /\ InLoop /\ msg[p] = 15
    /\ fg' = -1 /\ bold' = FALSE /\ underline' = FALSE
    /\ ControlStep
    /\ UNCHANGED in_ctcp

scan_bell ==
    /\ InLoop /\ msg[p] = 7
    /\ ControlStep
    /\ UNCHANGED scan_state

IsControl(b) == b \in {1, 3, 2, 31, 22, 15, 7}

scan_url ==
    /\ InLoop /\ ~IsControl(msg[p])
    /\ looks_like_url(msg, p)
    /\ LET e == url_end(msg, p)
       IN  /\ out' = out \o SubSeq(msg, p, e - 1)
           /\ styles' = styles \o
                 Repeat(style_for_state(TRUE, in_ctcp, fg, bold, underline), e - p)
           /\ out_pos' = out_pos + (e - p)
           /\ p' = e
    /\ UNCHANGED <<hex_stamp_text, session_ui_map, pc, call_frame, scan_state>>
    /\ UNCHANGED non_text_vars

scan_char ==
    /\ InLoop /\ ~IsControl(msg[p])
    /\ ~looks_like_url(msg, p)
    /\ LET apply_nick_color == /\ nick_start >= 0 /\ nick_color >= 0
                               /\ out_pos >= nick_start
                               /\ out_pos < nick_start + nick_len
           f == IF apply_nick_color THEN nick_color ELSE fg
       IN  /\ out' = Append(out, msg[p])
           /\ styles' = Append(styles, style_for_state(FALSE, in_ctcp, f, bold, underline))
    /\ out_pos' = out_pos + 1
    /\ p' = p + 1
    /\ UNCHANGED <<hex_stamp_text, session_ui_map, pc, call_frame, scan_state>>
    /\ UNCHANGED non_text_vars

\* A newline added without looking at the end of the text.
append_text_newline_unconditional ==
    /\ \/ pc = "scan" /\ p > Len(msg)
       \/ pc = "tail"
    /\ out' = Append(out, NL) /\ styles' = Append(styles, StyleA)
    /\ pc' = "flush"
    /\ UNCHANGED <<hex_stamp_text, session_ui_map, call_frame, out_pos, p, scan_state>>
    /\ UNCHANGED non_text_vars

\* Lines 1916-1920: the trailing newline.
append_text_newline ==
    /\ \/ pc = "scan" /\ p > Len(msg)
       \/ pc = "tail"
    /\ IF out = << >> \/ out[Len(out)] # NL
       THEN out' = Append(out, NL) /\ styles' = Append(styles, StyleA)
       ELSE UNCHANGED <<out, styles>>
    /\ pc' = "flush"
    /\ UNCHANGED <<hex_stamp_text, session_ui_map, call_frame, out_pos, p, scan_state>>
    /\ UNCHANGED non_text_vars

\* Lines 1922-1924: what the call leaves in the two buffers of the session.
flush_buffers(ui, o, st) ==
    LET buffer == ui.buffer \o o
    IN  [ui EXCEPT !.buffer = buffer,
                   !.style_buffer = IF Len(ui.style_buffer) <= Len(buffer)
                                    THEN ui.style_buffer \o st
                                    ELSE ui.style_buffer]

(***************************************************************************)
(* append_text as a function of its message: what one call appends, from   *)
(* the declarations of its locals to the trailing newline.                 *)
(***************************************************************************)
\* The loop from byte i on; st holds the four flags, acc the strings and out_pos.
RECURSIVE scan_from(_, _, _, _, _)
scan_from(s, i, st, acc, nick) ==
    IF i > Len(s) THEN acc
    ELSE IF s[i] = 1
    THEN scan_from(s, i + 1, [st EXCEPT !.in_ctcp = ~st.in_ctcp], acc, nick)
    ELSE IF s[i] = 3 THEN scan_from(s, after_color(s, i), st, acc, nick)
    ELSE IF s[i] = 2 THEN scan_from(s, i + 1, [st EXCEPT !.bold = ~st.bold], acc, nick)
    ELSE IF s[i] = 31
    THEN scan_from(s, i + 1, [st EXCEPT !.underline = ~st.underline], acc, nick)
    ELSE IF s[i] = 22 THEN scan_from(s, i + 1, st, acc, nick)
    ELSE IF s[i] = 15
    THEN scan_from(s, i + 1,
                   [st EXCEPT !.fg = -1, !.bold = FALSE, !.underline = FALSE], acc, nick)
    ELSE IF s[i] = 7 THEN scan_from(s, i + 1, st, acc, nick)
    ELSE IF looks_like_url(s, i)
    THEN LET e == url_end(s, i)
         IN  scan_from(s, e, st,
                 [out     |-> acc.out \o SubSeq(s, i, e - 1),
                  styles  |-> acc.styles \o
                     Repeat(style_for_state(TRUE, st.in_ctcp, st.fg, st.bold, st.underline),
                            e - i),
                  out_pos |-> acc.out_pos + (e - i)], nick)
    ELSE LET apply_nick_color == /\ nick.start >= 0 /\ nick.color >= 0
                                 /\ acc.out_pos >= nick.start
                                 /\ acc.out_pos < nick.start + nick.len
             f == IF apply_nick_color THEN nick.color ELSE st.fg
         IN  scan_from(s, i + 1, st,
                 [out     |-> Append(acc.out, s[i]),
                  styles  |-> Append(acc.styles,
                     style_for_state(FALSE, st.in_ctcp, f, st.bold, st.underline)),
                  out_pos |-> acc.out_pos + 1], nick)

\* The strings one call hands to the buffers, for timestamps on or off (stamp_text)
\* and the timestamp tb.
append_text_strings(text, tb, stamp_text) ==
    LET stamp == stamp_text /\ tb # << >>
        out0  == IF stamp THEN tb \o <<SP>> ELSE << >>
        sty0  == IF stamp THEN stamp_styles(tb) ELSE << >>
        body  == IF is_action(text)
                 THEN [out    |-> out0 \o <<42, SP>> \o action_body(text),
                       styles |-> sty0 \o Repeat(StyleA + 1, 2 + Len(action_body(text)))]
                 ELSE scan_from(text, 1,
                         [in_ctcp |-> FALSE, fg |-> -1, bold |-> FALSE, underline |-> FALSE],
                         [out |-> out0, styles |-> sty0, out_pos |-> Len(out0)],
                         detect_nick(text))
    IN  IF body.out = << >> \/ body.out[Len(body.out)] # NL
        THEN [out |-> Append(body.out, NL), styles |-> Append(body.styles, StyleA)]
        ELSE [out |-> body.out, styles |-> body.styles]

\* The buffers are written and the call returns.  The locals of the call are gone;
\* the four scan flags keep their last values until the next call initialises them.
append_text_flush ==
    /\ pc = "flush"
    /\ session_ui_map' =
          [session_ui_map EXCEPT ![sess] = flush_buffers(session_ui_map[sess], out, styles)]
    /\ pc' = "idle"
    /\ sess' = NoSession
    /\ msg' = << >> /\ tbuf' = << >> /\ out' = << >> /\ styles' = << >>
    /\ nick_start' = -1 /\ nick_len' = 0 /\ nick_color' = -1 /\ out_pos' = 0
    /\ p' = 1
    /\ UNCHANGED <<hex_stamp_text, scan_state>>
    /\ UNCHANGED non_text_vars

fe_text_clear(s) ==
    /\ pc = "idle"
    /\ session_ui_map' =
          [ensure_session_ui(session_ui_map, s) EXCEPT ![s].buffer = << >>]
    /\ UNCHANGED <<hex_stamp_text, pc, call_frame, out, styles, out_pos, p, scan_state>>
    /\ UNCHANGED non_text_vars

fe_close_window(s) ==
    /\ pc = "idle"
    /\ s \in DOMAIN session_ui_map
    /\ session_ui_map' = [x \in DOMAIN session_ui_map \ {s} |-> session_ui_map[x]]
    /\ UNCHANGED <<hex_stamp_text, pc, call_frame, out, styles, out_pos, p, scan_state>>
    /\ UNCHANGED non_text_vars

\* prefs_save_cb, the timestamp check box.
prefs_save_stamp(v) ==
    /\ pc = "idle"
    /\ hex_stamp_text' = v
    /\ UNCHANGED <<session_ui_map, pc, call_frame, out, styles, out_pos, p, scan_state>>
    /\ UNCHANGED non_text_vars

\* style_for_state called for the flags ctcp, f, b and u.
call_style_for_state(hyperlink, ctcp, f, b, u) ==
    /\ ret' = [op |-> "style_for_state", hyperlink |-> hyperlink, in_ctcp |-> ctcp,
               fg |-> f, bold |-> b, underline |-> u,
               val |-> style_for_state(hyperlink, ctcp, f, b, u)]
    /\ UNCHANGED <<hex_gui_input_spell, hex_text_spell_langs, installed, have_enchant,
                   spell_broker, spell_dicts, dict_session, dict_personal,
                   spell_session_ignores, enchant_live>>
    /\ UNCHANGED <<text_vars, palette_vars, userlist_vars, input_vars>>

ScanStep ==
    \/ scan_ctcp
    \/ scan_color
    \/ scan_bold
    \/ scan_underline
    \/ scan_reverse
    \/ scan_reset
    \/ scan_bell
    \/ scan_url
    \/ scan_char
    \/ append_text_newline
    \/ append_text_flush

(***************************************************************************)
(* The user lists and their deferred refresh.  Every handler runs on the   *)
(* main loop, between two calls of append_text.                            *)
(***************************************************************************)
Nicks == {"al", "bo"}

\* The keys of std::map come in their order.
NickOrder == <<"al", "bo">>

\* A User pointer that is NULL.
NoUser == "NULL"

Prefixes == {"", "@"}

\* g_idle_add whatever the latch says.
schedule_userlist_refresh_unlatched ==
    /\ idle_sources' = idle_sources + 1
    /\ userlist_idle_scheduled' = TRUE

schedule_userlist_refresh ==
    IF ~userlist_idle_scheduled
    THEN /\ idle_sources' = idle_sources + 1
         /\ userlist_idle_scheduled' = TRUE
    ELSE UNCHANGED <<userlist_idle_scheduled, idle_sources>>

userlist_frame == <<hex_stamp_text, pc, call_frame, out, styles, out_pos, p, scan_state,
                    spell_vars, palette_vars, input_vars>>

\* The map of the session with nick mapped to prefix.
users_put(users, nick, prefix) ==
    [n \in DOMAIN users \cup {nick} |-> IF n = nick THEN prefix ELSE users[n]]

users_erase(users, nick) == [n \in DOMAIN users \ {nick} |-> users[n]]

fe_userlist_insert(s, nick, prefix) ==
    /\ pc = "idle"
    /\ IF nick = NoUser
       THEN UNCHANGED <<session_ui_map, userlist_vars>>
       ELSE LET m == ensure_session_ui(session_ui_map, s)
            IN  /\ session_ui_map' =
                      [m EXCEPT ![s].users = users_put(m[s].users, nick, prefix),
                                ![s].userlist_dirty = TRUE]
                /\ schedule_userlist_refresh
    /\ UNCHANGED userlist_frame

fe_userlist_remove(s, nick) ==
    /\ pc = "idle"
    /\ IF nick = NoUser
       THEN UNCHANGED <<session_ui_map, userlist_vars>>
       ELSE LET m == ensure_session_ui(session_ui_map, s)
            IN  /\ session_ui_map' =
                      [m EXCEPT ![s].users = users_erase(m[s].users, nick),
                                ![s].userlist_dirty = TRUE]
                /\ schedule_userlist_refresh
    /\ UNCHANGED userlist_frame

fe_userlist_rehash(s) ==
    /\ pc = "idle"
    /\ session_ui_map' =
          [ensure_session_ui(session_ui_map, s) EXCEPT ![s].userlist_dirty = TRUE]
    /\ schedule_userlist_refresh
    /\ UNCHANGED userlist_frame

\* fe_userlist_update hands the user to fe_userlist_insert.
fe_userlist_update(s, nick, prefix) == fe_userlist_insert(s, nick, prefix)

fe_userlist_clear(s) ==
    /\ pc = "idle"
    /\ session_ui_map' =
          [ensure_session_ui(session_ui_map, s) EXCEPT ![s].users = << >>,
                                                       ![s].userlist_dirty = TRUE]
    /\ schedule_userlist_refresh
    /\ UNCHANGED userlist_frame

\* The rows update_user_browser adds for the nicks from the k-th on: the label,
\* with a leading '@' doubled.
RECURSIVE browser_rows(_, _)
browser_rows(users, k) ==
    IF k > Len(NickOrder) THEN << >>
    ELSE IF NickOrder[k] \in DOMAIN users
    THEN << <<IF users[NickOrder[k]] = "@" THEN "@@" ELSE users[NickOrder[k]],
              NickOrder[k]>> >> \o browser_rows(users, k + 1)
    ELSE browser_rows(users, k + 1)

\* The dirty flag cleared and the rows left as they were.
update_user_browser_rows_kept(ui) == [ui EXCEPT !.userlist_dirty = FALSE]

update_user_browser(ui) ==
    [ui EXCEPT !.user_browser = browser_rows(ui.users, 1), !.userlist_dirty = FALSE]

\* The main loop runs a pending source; returning FALSE removes it.
userlist_idle_cb ==
    /\ pc = "idle"
    /\ idle_sources > 0
    /\ session_ui_map' =
          [s \in DOMAIN session_ui_map |->
              IF session_ui_map[s].userlist_dirty
              THEN update_user_browser(session_ui_map[s])
              ELSE session_ui_map[s]]
    /\ userlist_idle_scheduled' = FALSE
    /\ idle_sources' = idle_sources - 1
    /\ UNCHANGED userlist_frame

(***************************************************************************)
(* The spell annotator and the dictionary adapter.                         *)
(*                                                                         *)
(* A dictionary is known by its language.  enchant_dict_check accepts the  *)
(* words of the language's lexicon and the words added to the session      *)
(* vocabulary of the dictionary.                                           *)
(***************************************************************************)
Langs == {"en", "de"}

\* The words the installed dictionaries know: "a" in English, "A" in German.
Lexicon == [l \in Langs |-> IF l = "en" THEN {<<97>>} ELSE {<<65>>}]

\* "HexChat", "FlexChat", "IRC"
DomainTerms ==
    { <<72, 101, 120, 67, 104, 97, 116>>,
      <<70, 108, 101, 120, 67, 104, 97, 116>>,
      <<73, 82, 67>> }

NoCall == [op |-> "none"]

\* enchant_live.broker: the broker spell_broker was last assigned is not freed;
\* enchant_live.dicts[k]: the handle spell_dicts[k] is not freed; enchant_live.lost:
\* handles that are not freed and that no variable holds any more.
NoHandles == [broker |-> FALSE, dicts |-> << >>, lost |-> 0]

\* The input box is empty and was not clicked.
InputIdle == input_value = << >> /\ input_position = 0 /\ mark_pos = -1

SpellIdle ==
    /\ have_enchant = FALSE
    /\ spell_broker = "null"
    /\ spell_dicts = << >>
    /\ dict_session = [l \in Langs |-> {}]
    /\ dict_personal = [l \in Langs |-> {}]
    /\ spell_session_ignores = {}
    /\ enchant_live = NoHandles
    /\ ret = NoCall

\* g_utf8_next_char: the length of the character that starts with byte b.
utf8_skip(b) ==
    IF b < 192 THEN 1
    ELSE IF b < 224 THEN 2
    ELSE IF b < 240 THEN 3
    ELSE IF b < 248 THEN 4
    ELSE IF b < 252 THEN 5
    ELSE IF b < 254 THEN 6
    ELSE 1

\* g_utf8_get_char of the character at s[i], for characters of up to three bytes.
g_utf8_get_char(s, i) ==
    LET b == At(s, i)
    IN  IF b < 128 THEN b
        ELSE IF b >= 192 /\ b < 224
        THEN (b - 192) * 64 + (At(s, i + 1) % 64)
        ELSE IF b >= 224 /\ b < 240
        THEN (b - 224) * 4096 + (At(s, i + 1) % 64) * 64 + (At(s, i + 2) % 64)
        ELSE -1

\* g_unichar_isalpha, for the code points up to U+00FF.
g_unichar_isalpha(c) ==
    \/ c \in 65..90
    \/ c \in 97..122
    \/ c \in {170, 181, 186}
    \/ c \in (192..255) \ {215, 247}

\* The four bytes compared as they are.
strncmp4_eq(word, pre) == \A k \in 1..4 : At(word, k) = pre[k]

\* strncasecmp (word, pre, 4) == 0
strncasecmp_eq(word, pre) ==
    \A k \in 1..4 : g_ascii_tolower(At(word, k)) = g_ascii_tolower(pre[k])

enchant_dict_check_ok(lang, word) ==
    word \in Lexicon[lang] \cup dict_session[lang] \cup dict_personal[lang]

\* spell_check_word without its first test: with no dictionary the loop over the
\* dictionaries finds no one to accept the word.
spell_check_word_unguarded(word) ==
    IF Len(word) >= 4 /\ (\/ strncasecmp_eq(word, <<104, 116, 116, 112>>)
                          \/ strncasecmp_eq(word, <<102, 116, 112, 58>>)
                          \/ strncasecmp_eq(word, <<105, 114, 99, 58>>))
    THEN TRUE
    ELSE IF ~g_unichar_isalpha(g_utf8_get_char(word, 1)) THEN TRUE
    ELSE IF word \in spell_session_ignores THEN TRUE
    ELSE \E k \in 1..Len(spell_dicts) : enchant_dict_check_ok(spell_dicts[k], word)

\* spell_check_word without the look-up in the session ignores.
spell_check_word_no_ignores(word) ==
    IF ~have_enchant \/ spell_dicts = << >> \/ Len(word) = 0 THEN TRUE
    ELSE IF Len(word) >= 4 /\ (\/ strncasecmp_eq(word, <<104, 116, 116, 112>>)
                               \/ strncasecmp_eq(word, <<102, 116, 112, 58>>)
                               \/ strncasecmp_eq(word, <<105, 114, 99, 58>>))
    THEN TRUE
    ELSE IF ~g_unichar_isalpha(g_utf8_get_char(word, 1)) THEN TRUE
    ELSE \E k \in 1..Len(spell_dicts) : enchant_dict_check_ok(spell_dicts[k], word)

\* TRUE: the word is taken as correct.
spell_check_word(word) ==
    IF ~have_enchant \/ spell_dicts = << >> \/ Len(word) = 0 THEN TRUE
    ELSE IF Len(word) >= 4 /\ (\/ strncasecmp_eq(word, <<104, 116, 116, 112>>)
                               \/ strncasecmp_eq(word, <<102, 116, 112, 58>>)
                               \/ strncasecmp_eq(word, <<105, 114, 99, 58>>))
    THEN TRUE
    ELSE IF ~g_unichar_isalpha(g_utf8_get_char(word, 1)) THEN TRUE
    ELSE IF word \in spell_session_ignores THEN TRUE
    ELSE \E k \in 1..Len(spell_dicts) : enchant_dict_check_ok(spell_dicts[k], word)

\* The first loop of spell_find_words: the next alphabetic character at or after i.
RECURSIVE skip_non_word(_, _)
skip_non_word(text, i) ==
    IF At(text, i) # 0 /\ ~g_unichar_isalpha(g_utf8_get_char(text, i))
    THEN skip_non_word(text, i + utf8_skip(At(text, i)))
    ELSE i

\* The second loop stopping at an apostrophe or a hyphen too.
RECURSIVE word_end_letters_only(_, _)
word_end_letters_only(text, i) ==
    IF At(text, i) # 0 /\ g_unichar_isalpha(g_utf8_get_char(text, i))
    THEN word_end_letters_only(text, i + utf8_skip(At(text, i)))
    ELSE i

\* The second loop: the end of the word that starts at i.
RECURSIVE word_end(_, _)
word_end(text, i) ==
    IF At(text, i) # 0 /\ (\/ g_unichar_isalpha(g_utf8_get_char(text, i))
                           \/ g_utf8_get_char(text, i) = 39
                           \/ g_utf8_get_char(text, i) = 45)
    THEN word_end(text, i + utf8_skip(At(text, i)))
    ELSE i

\* The spans from index i on; start and end are the code's 0-based byte offsets.
RECURSIVE find_words_from(_, _)
find_words_from(text, i) ==
    IF At(text, i) = 0 THEN << >>
    ELSE LET ws == skip_non_word(text, i)
         IN  IF At(text, ws) = 0 THEN << >>
             ELSE LET we == word_end(text, ws)
                  IN  IF we - ws > 0
                      THEN << [start |-> ws - 1, end |-> we - 1,
                               misspelled |-> ~spell_check_word(SubSeq(text, ws, we - 1))] >>
                           \o find_words_from(text, we)
                      ELSE find_words_from(text, we)

spell_find_words(text) == find_words_from(text, 1)

Range(s) == { s[i] : i \in 1..Len(s) }

\* One suggestion added without comparing it with the ones collected.
add_suggestion_unchecked(result, s) ==
    IF Len(result) < 10 THEN Append(result, s) ELSE result

\* One pass of the inner loop of spell_get_suggestions.
add_suggestion(result, s) ==
    IF Len(result) < 10 /\ s \notin Range(result) THEN Append(result, s) ELSE result

RECURSIVE add_suggestions(_, _)
add_suggestions(result, list) ==
    IF list = << >> THEN result
    ELSE add_suggestions(add_suggestion(result, Head(list)), Tail(list))

\* lists[k] is what enchant_dict_suggest returns for the k-th dictionary.
RECURSIVE merge_suggestions(_, _, _)
merge_suggestions(result, lists, k) ==
    IF k > Len(lists) THEN result
    ELSE merge_suggestions(add_suggestions(result, lists[k]), lists, k + 1)

spell_get_suggestions(word, lists) ==
    IF ~have_enchant \/ spell_dicts = << >> \/ Len(word) = 0 THEN << >>
    ELSE merge_suggestions(<< >>, lists, 1)

\* The dictionaries spell_init_broker loads for the language tokens from index k on.
RECURSIVE request_dicts(_, _)
request_dicts(langs, k) ==
    IF k > Len(langs) THEN << >>
    ELSE IF langs[k] # "" /\ langs[k] \in installed
    THEN <<langs[k]>> \o request_dicts(langs, k + 1)
    ELSE request_dicts(langs, k + 1)

spell_frame == <<hex_gui_input_spell, hex_text_spell_langs, installed, dict_personal>>

\* dlopen and dlsym found the library (found) or did not.
initialize_enchant(found) ==
    /\ have_enchant' = (have_enchant \/ found)
    /\ ret' = [op |-> "initialize_enchant"]
    /\ UNCHANGED <<spell_frame, spell_broker, spell_dicts, dict_session,
                   spell_session_ignores, enchant_live>>
    /\ UNCHANGED non_spell_vars

\* enchant_broker_init returned a broker (ok) or NULL.
spell_init_broker(ok) ==
    /\ ret' = [op |-> "spell_init_broker"]
    /\ IF ~have_enchant \/ spell_broker # "null" \/ ~ok
       THEN UNCHANGED <<spell_broker, spell_dicts, dict_session, enchant_live>>
       ELSE LET loaded == request_dicts(hex_text_spell_langs, 1)
                dicts  == spell_dicts \o loaded
                fallback == dicts = << >> /\ "en" \in installed
            IN  /\ spell_broker' = "broker"
                /\ enchant_live' =
                      [broker |-> TRUE,
                       dicts  |-> enchant_live.dicts \o
                                  [k \in 1..(IF fallback THEN 1 ELSE Len(loaded)) |-> TRUE],
                       lost   |-> enchant_live.lost + IF enchant_live.broker THEN 1 ELSE 0]
                /\ dict_session' =
                      [l \in Langs |-> IF l \in Range(loaded)
                                       THEN dict_session[l] \cup DomainTerms
                                       ELSE dict_session[l]]
                /\ spell_dicts' =
                      IF dicts = << >> /\ "en" \in installed THEN <<"en">> ELSE dicts
    /\ UNCHANGED <<spell_frame, have_enchant, spell_session_ignores>>
    /\ UNCHANGED non_spell_vars

\* The calls of enchant_broker_free_dict and enchant_broker_free that spell_cleanup
\* makes, in their order: live tells that the handle was not freed before,
\* broker_live that the broker passed along was not.
cleanup_frees ==
    IF spell_broker # "null"
    THEN [k \in 1..Len(spell_dicts) |->
             [kind |-> "dict", live |-> enchant_live.dicts[k],
              broker_live |-> enchant_live.broker]]
         \o << [kind |-> "broker", live |-> enchant_live.broker,
                broker_live |-> enchant_live.broker] >>
    ELSE << >>

\* spell_cleanup that leaves the freed broker in spell_broker.
spell_cleanup_broker_kept ==
    /\ ret' = [op |-> "spell_cleanup", freed |-> cleanup_frees]
    /\ IF spell_broker # "null"
       THEN /\ spell_dicts' = << >>
            /\ dict_session' = [l \in Langs |-> {}]
            /\ enchant_live' = [enchant_live EXCEPT !.broker = FALSE, !.dicts = << >>]
            /\ UNCHANGED spell_broker
       ELSE UNCHANGED <<spell_broker, spell_dicts, dict_session, enchant_live>>
    /\ spell_session_ignores' = {}
    /\ UNCHANGED <<spell_frame, have_enchant>>
    /\ UNCHANGED non_spell_vars

\* Freeing a dictionary ends its session vocabulary.
spell_cleanup ==
    /\ ret' = [op |-> "spell_cleanup", freed |-> cleanup_frees]
    /\ IF spell_broker # "null"
       THEN /\ spell_dicts' = << >>
            /\ dict_session' = [l \in Langs |-> {}]
            /\ spell_broker' = "null"
            /\ enchant_live' = [enchant_live EXCEPT !.broker = FALSE, !.dicts = << >>]
       ELSE UNCHANGED <<spell_broker, spell_dicts, dict_session, enchant_live>>
    /\ spell_session_ignores' = {}
    /\ UNCHANGED <<spell_frame, have_enchant>>
    /\ UNCHANGED non_spell_vars

(***************************************************************************)
(* The callers of spell_init_broker and spell_cleanup.  A handler that     *)
(* makes more than one of the calls is one step; the calls are written as  *)
(* functions of the handles h they work on.                                *)
(***************************************************************************)
spell_handles ==
    [spell_broker |-> spell_broker, spell_dicts |-> spell_dicts,
     dict_session |-> dict_session, spell_session_ignores |-> spell_session_ignores,
     enchant_live |-> enchant_live]

\* spell_init_broker with have_enchant = enchant and the language list langs.
after_spell_init_broker(h, enchant, langs, ok) ==
    IF ~enchant \/ h.spell_broker # "null" \/ ~ok THEN h
    ELSE LET loaded == request_dicts(langs, 1)
             dicts  == h.spell_dicts \o loaded
             fallback == dicts = << >> /\ "en" \in installed
         IN  [h EXCEPT
                !.spell_broker = "broker",
                !.enchant_live =
                    [broker |-> TRUE,
                     dicts  |-> h.enchant_live.dicts \o
                                [k \in 1..(IF fallback THEN 1 ELSE Len(loaded)) |-> TRUE],
                     lost   |-> h.enchant_live.lost
                                + IF h.enchant_live.broker THEN 1 ELSE 0],
                !.dict_session =
                    [l \in Langs |-> IF l \in Range(loaded)
                                     THEN h.dict_session[l] \cup DomainTerms
                                     ELSE h.dict_session[l]],
                !.spell_dicts = IF fallback THEN <<"en">> ELSE dicts]

after_spell_cleanup(h) ==
    IF h.spell_broker # "null"
    THEN [h EXCEPT !.spell_dicts = << >>,
                   !.dict_session = [l \in Langs |-> {}],
                   !.spell_broker = "null",
                   !.enchant_live = [h.enchant_live EXCEPT !.broker = FALSE,
                                                           !.dicts = << >>],
                   !.spell_session_ignores = {}]
    ELSE [h EXCEPT !.spell_session_ignores = {}]

set_spell_handles(h) ==
    /\ spell_broker' = h.spell_broker
    /\ spell_dicts' = h.spell_dicts
    /\ dict_session' = h.dict_session
    /\ spell_session_ignores' = h.spell_session_ignores
    /\ enchant_live' = h.enchant_live

\* fe_init, lines 4591-4593.
fe_init(found, ok) ==
    /\ ret' = [op |-> "fe_init"]
    /\ have_enchant' = (have_enchant \/ found)
    /\ set_spell_handles(IF (have_enchant \/ found) /\ hex_gui_input_spell
                         THEN after_spell_init_broker(spell_handles, have_enchant \/ found,
                                                      hex_text_spell_langs, ok)
                         ELSE spell_handles)
    /\ UNCHANGED spell_frame
    /\ UNCHANGED non_spell_vars

\* prefs_save_cb, lines 2943-2963: enable is the check box, langs the language
\* field; ok1 and ok2 are the outcomes of enchant_broker_init in the two calls.
prefs_save_cb(enable, langs, ok1, ok2) ==
    LET h1 == IF enable /\ ~hex_gui_input_spell /\ have_enchant
              THEN after_spell_init_broker(spell_handles, have_enchant,
                                           hex_text_spell_langs, ok1)
              ELSE spell_handles
        h2 == IF langs # hex_text_spell_langs /\ have_enchant /\ enable
              THEN after_spell_init_broker(after_spell_cleanup(h1), have_enchant, langs, ok2)
              ELSE h1
    IN  /\ ret' = [op |-> "prefs_save_cb"]
        /\ hex_gui_input_spell' = enable
        /\ hex_text_spell_langs' = langs
        /\ set_spell_handles(h2)
        /\ UNCHANGED <<installed, dict_personal, have_enchant>>
        /\ UNCHANGED non_spell_vars

spell_ignore_word(word) ==
    /\ ret' = [op |-> "spell_ignore_word", word |-> word]
    /\ IF word = << >>
       THEN UNCHANGED <<spell_session_ignores, dict_session>>
       ELSE /\ spell_session_ignores' = spell_session_ignores \cup {word}
            /\ dict_session' =
                  IF have_enchant /\ spell_dicts # << >>
                  THEN [l \in Langs |-> IF l \in Range(spell_dicts)
                                        THEN dict_session[l] \cup {word}
                                        ELSE dict_session[l]]
                  ELSE dict_session
    /\ UNCHANGED <<spell_frame, have_enchant, spell_broker, spell_dicts, enchant_live>>
    /\ UNCHANGED non_spell_vars

call_spell_check_word(word) ==
    /\ ret' = [op |-> "spell_check_word", word |-> word, val |-> spell_check_word(word)]
    /\ UNCHANGED <<spell_frame, have_enchant, spell_broker, spell_dicts, dict_session,
                   spell_session_ignores, enchant_live>>
    /\ UNCHANGED non_spell_vars

call_spell_find_words(text) ==
    /\ ret' = [op |-> "spell_find_words", text |-> text, val |-> spell_find_words(text)]
    /\ UNCHANGED <<spell_frame, have_enchant, spell_broker, spell_dicts, dict_session,
                   spell_session_ignores, enchant_live>>
    /\ UNCHANGED non_spell_vars

call_spell_get_suggestions(word, lists) ==
    /\ ret' = [op |-> "spell_get_suggestions", word |-> word, lists |-> lists,
               val |-> spell_get_suggestions(word, lists)]
    /\ UNCHANGED <<spell_frame, have_enchant, spell_broker, spell_dicts, dict_session,
                   spell_session_ignores, enchant_live>>
    /\ UNCHANGED non_spell_vars

(***************************************************************************)
(* The input box, SpellInput.  Character positions count codepoints from   *)
(* 0, byte offsets count bytes from 0; an index of the model is the byte   *)
(* offset plus one.                                                        *)
(***************************************************************************)
\* g_utf8_prev_char: the start of the character before index i.
RECURSIVE g_utf8_prev_char(_, _)
g_utf8_prev_char(s, i) ==
    IF i - 1 > 1 /\ s[i - 1] \in 128..191 THEN g_utf8_prev_char(s, i - 1) ELSE i - 1

\* The first loop of get_word_at: n characters on from index i, or the end.
RECURSIVE skip_chars(_, _, _)
skip_chars(val, i, n) ==
    IF n > 0 /\ At(val, i) # 0 THEN skip_chars(val, i + utf8_skip(val[i]), n - 1) ELSE i

\* The test of both boundary loops: a codepoint that does not end the word.
in_word(c) == g_unichar_isalpha(c) \/ c = 39 \/ c = 45

RECURSIVE word_start_before(_, _)
word_start_before(val, ws) ==
    IF ws > 1
    THEN LET prev == g_utf8_prev_char(val, ws)
         IN  IF ~in_word(g_utf8_get_char(val, prev)) THEN ws
             ELSE word_start_before(val, prev)
    ELSE ws

RECURSIVE word_end_after(_, _)
word_end_after(val, we) ==
    IF At(val, we) # 0 /\ in_word(g_utf8_get_char(val, we))
    THEN word_end_after(val, we + utf8_skip(val[we]))
    ELSE we

\* get_word_at: the word at character position char_pos, empty when there is none.
get_word_at(val, char_pos) ==
    IF val = << >> THEN << >>
    ELSE LET i == skip_chars(val, 1, char_pos)
         IN  IF At(val, i) = 0 THEN << >>
             ELSE LET ws == word_start_before(val, i)
                      we == word_end_after(val, i)
                  IN  IF we <= ws THEN << >> ELSE SubSeq(val, ws, we - 1)

\* strstr: the index of the first occurrence of w at or after i, 0 for none.
RECURSIVE strstr_from(_, _, _)
strstr_from(val, w, i) ==
    IF i + Len(w) - 1 > Len(val) THEN 0
    ELSE IF SubSeq(val, i, i + Len(w) - 1) = w THEN i
    ELSE strstr_from(val, w, i + 1)

\* replace_word_at_mark: the value and the cursor it leaves.
replace_word_at_mark(val, position, old_word, new_word) ==
    LET found == strstr_from(val, old_word, 1)
        start == found - 1
        end   == start + Len(old_word)
    IN  IF found = 0 THEN [value |-> val, position |-> position]
        ELSE [value    |-> SubSeq(val, 1, start) \o new_word \o SubSeq(val, end + 1, Len(val)),
              position |-> start + Len(new_word)]

\* The number of characters of the text from index i on.
RECURSIVE char_count(_, _)
char_count(val, i) ==
    IF At(val, i) = 0 THEN 0 ELSE 1 + char_count(val, i + utf8_skip(val[i]))

\* Fl_Input takes what is typed; the box holds valid UTF-8.
input_typed(text) ==
    /\ input_value' = text
    /\ input_position' = Len(text)
    /\ ret' = [op |-> "input_typed"]
    /\ UNCHANGED <<mark_pos, spell_frame, have_enchant, spell_broker, spell_dicts,
                   dict_session, spell_session_ignores, enchant_live>>
    /\ UNCHANGED <<text_vars, palette_vars, userlist_vars>>

\* The user data of the menu entries that are not suggestions; a suggestion has
\* its index, from 0.  MenuNothing stands for a menu closed without a choice.
MenuAdd == -1
MenuIgnore == -2
MenuNothing == -3

\* SpellInput::handle for a press of the right button that the measuring loop
\* takes to character position pos; pick is the user data of the entry chosen
\* from the menu, lists what the dictionaries suggest.
SpellInput_handle(pos, pick, lists) ==
    /\ pos <= char_count(input_value, 1)
    /\ IF input_value = << >>
       THEN /\ ret' = [op |-> "handle", word |-> << >>, menu |-> FALSE,
                       pick |-> MenuNothing, new_word |-> << >>]
            /\ UNCHANGED <<input_vars, dict_session, dict_personal, spell_session_ignores>>
       ELSE LET word   == get_word_at(input_value, pos)
                menu   == word # << >> /\ ~spell_check_word(word)
                sugg   == spell_get_suggestions(word, lists)
                loaded == have_enchant /\ spell_dicts # << >>
                new    == IF menu /\ pick >= 0 /\ pick < Len(sugg)
                          THEN replace_word_at_mark(input_value, input_position,
                                                    word, sugg[pick + 1])
                          ELSE [value |-> input_value, position |-> input_position]
            IN  /\ pick \in {MenuNothing, MenuAdd, MenuIgnore} \cup (0..(Len(sugg) - 1))
                /\ mark_pos' = pos
                /\ ret' = [op |-> "handle", word |-> word, menu |-> menu,
                           pick |-> IF menu THEN pick ELSE MenuNothing,
                           new_word |-> IF menu /\ pick >= 0 /\ pick < Len(sugg)
                                        THEN sugg[pick + 1] ELSE << >>]
                /\ input_value' = new.value
                /\ input_position' = new.position
                /\ dict_personal' =
                      IF menu /\ pick = MenuAdd /\ loaded
                      THEN [l \in Langs |-> IF l \in Range(spell_dicts)
                                            THEN dict_personal[l] \cup {word}
                                            ELSE dict_personal[l]]
                      ELSE dict_personal
                /\ spell_session_ignores' =
                      IF menu /\ pick = MenuIgnore
                      THEN spell_session_ignores \cup {word} ELSE spell_session_ignores
                /\ dict_session' =
                      IF menu /\ pick = MenuIgnore /\ loaded
                      THEN [l \in Langs |-> IF l \in Range(spell_dicts)
                                            THEN dict_session[l] \cup {word}
                                            ELSE dict_session[l]]
                      ELSE dict_session
    /\ UNCHANGED <<hex_gui_input_spell, hex_text_spell_langs, installed, have_enchant,
                   spell_broker, spell_dicts, enchant_live>>
    /\ UNCHANGED <<text_vars, palette_vars, userlist_vars>>

(***************************************************************************)
(* The color palette and colors.conf.  The file is a sequence of lines,    *)
(* each with its newline, as fgets hands them to sscanf.                   *)
(***************************************************************************)
\* The initializer of palette_colors.
DefaultColors ==
    << <<211, 215, 207>>, <<46, 52, 54>>, <<52, 101, 164>>, <<78, 154, 6>>,
       <<204, 0, 0>>, <<143, 57, 2>>, <<92, 53, 102>>, <<206, 92, 0>>,
       <<196, 160, 0>>, <<115, 210, 22>>, <<17, 168, 121>>, <<88, 161, 157>>,
       <<87, 121, 158>>, <<160, 66, 101>>, <<85, 87, 83>>, <<136, 138, 133>>,
       <<211, 215, 207>>, <<46, 52, 54>>, <<52, 101, 164>>, <<78, 154, 6>>,
       <<204, 0, 0>>, <<143, 57, 2>>, <<92, 53, 102>>, <<206, 92, 0>>,
       <<196, 160, 0>>, <<115, 210, 22>>, <<17, 168, 121>>, <<88, 161, 157>>,
       <<87, 121, 158>>, <<160, 66, 101>>, <<85, 87, 83>>, <<136, 138, 133>>,
       <<211, 215, 207>>, <<32, 74, 135>>, <<37, 41, 43>>, <<250, 250, 248>>,
       <<143, 57, 2>>, <<52, 101, 164>>, <<78, 154, 6>>, <<206, 92, 0>>,
       <<136, 138, 133>>, <<164, 0, 0>> >>

InitialPalette == [i \in 0..MAX_COL |-> DefaultColors[i + 1]]

\* default_palette_colors is zero-initialized.
ZeroPalette == [i \in 0..MAX_COL |-> <<0, 0, 0>>]

NoFile == [exists |-> FALSE, lines |-> << >>]

PaletteIdle ==
    /\ palette_colors = InitialPalette
    /\ default_palette_colors = ZeroPalette
    /\ palette_defaults_saved = FALSE
    /\ palette_call = [op |-> "none"]

\* "%d" of fprintf, for a number that is not negative.
RECURSIVE fmt_d(_)
fmt_d(n) == IF n < 10 THEN <<48 + n>> ELSE fmt_d(n \div 10) \o <<48 + (n % 10)>>

\* "color_"
ColorKey == <<99, 111, 108, 111, 114, 95>>

\* fprintf (fp, "color_%d = %d %d %d\n", n, r, g, b)
palette_line(n, c) ==
    ColorKey \o fmt_d(n) \o <<SP, 61, SP>> \o fmt_d(c[1]) \o <<SP>> \o fmt_d(c[2])
        \o <<SP>> \o fmt_d(c[3]) \o <<NL>>

\* The number palette_save writes for index i.
file_index(i) == IF i < 32 THEN i ELSE 256 + (i - 32)

\* What palette_save writes: the two loops, one line for each index.
palette_file(pal) ==
    [exists |-> TRUE,
     lines  |-> [k \in 1..(MAX_COL + 1) |-> palette_line(file_index(k - 1), pal[k - 1])]]

\* White space as a directive of sscanf skips it.
RECURSIVE skip_space(_, _)
skip_space(s, i) == IF g_ascii_isspace(At(s, i)) THEN skip_space(s, i + 1) ELSE i

RECURSIVE digits_end(_, _)
digits_end(s, i) == IF g_ascii_isdigit(At(s, i)) THEN digits_end(s, i + 1) ELSE i

\* The value of the digits s[i..e-1] after the value acc.
RECURSIVE dec_value(_, _, _, _)
dec_value(s, i, e, acc) ==
    IF i >= e THEN acc ELSE dec_value(s, i + 1, e, acc * 10 + (s[i] - 48))

\* "%d" of sscanf at index i: white space, an optional sign, digits.
scan_d(s, i) ==
    LET a == skip_space(s, i)
        b == IF At(s, a) \in {43, 45} THEN a + 1 ELSE a
        e == digits_end(s, b)
        v == dec_value(s, b, e, 0)
    IN  [ok |-> e > b, val |-> IF At(s, a) = 45 THEN 0 - v ELSE v, next |-> e]

\* sscanf (line, "color_%d = %d %d %d", &idx, &r, &g, &b): n is the number of
\* conversions made.
sscanf_color(line) ==
    LET none == [n |-> 0, idx |-> 0, r |-> 0, g |-> 0, b |-> 0]
    IN  IF \E k \in 1..6 : At(line, k) # ColorKey[k] THEN none
        ELSE LET d1 == scan_d(line, 7)
             IN  IF ~d1.ok THEN none
                 ELSE LET eq == skip_space(line, d1.next)
                      IN  IF At(line, eq) # 61 THEN [none EXCEPT !.n = 1]
                          ELSE LET d2 == scan_d(line, eq + 1)
                               IN  IF ~d2.ok THEN [none EXCEPT !.n = 1]
                                   ELSE LET d3 == scan_d(line, d2.next)
                                        IN  IF ~d3.ok THEN [none EXCEPT !.n = 2]
                                            ELSE LET d4 == scan_d(line, d3.next)
                                                 IN  IF ~d4.ok THEN [none EXCEPT !.n = 3]
                                                     ELSE [n |-> 4, idx |-> d1.val,
                                                           r |-> d2.val, g |-> d3.val,
                                                           b |-> d4.val]

\* A file index taken as it is, without the mapping of the special colors.
store_index_unmapped(idx) == idx

\* The index palette_load stores a file index under.
store_index(idx) == IF idx >= 256 THEN 32 + (idx - 256) ELSE idx

\* The body of the loop of palette_load for one line; (unsigned char) is modulo 256.
load_line(pal, line) ==
    LET f   == sscanf_color(line)
        idx == store_index(f.idx)
    IN  IF f.n = 4 /\ idx >= 0 /\ idx <= MAX_COL
        THEN [pal EXCEPT ![idx] = <<f.r % 256, f.g % 256, f.b % 256>>]
        ELSE pal

RECURSIVE load_lines(_, _, _)
load_lines(pal, lines, k) ==
    IF k > Len(lines) THEN pal ELSE load_lines(load_line(pal, lines[k]), lines, k + 1)

palette_save_defaults ==
    IF ~palette_defaults_saved
    THEN /\ default_palette_colors' = palette_colors
         /\ palette_defaults_saved' = TRUE
    ELSE UNCHANGED <<default_palette_colors, palette_defaults_saved>>

palette_set_color(index, c) ==
    /\ palette_call' = [op |-> "palette_set_color"]
    /\ palette_colors' =
          IF index < 0 \/ index > MAX_COL THEN palette_colors
          ELSE [palette_colors EXCEPT ![index] = c]
    /\ UNCHANGED <<default_palette_colors, palette_defaults_saved, colors_conf>>
    /\ UNCHANGED non_palette_vars

\* opened: fopen (path, "r") gave a stream; it never does without a file.
palette_load(can_open) ==
    LET opened == can_open /\ colors_conf.exists
    IN  /\ palette_call' = [op |-> "palette_load", opened |-> opened]
        /\ palette_save_defaults
        /\ palette_colors' =
              IF opened THEN load_lines(palette_colors, colors_conf.lines, 1)
              ELSE palette_colors
        /\ UNCHANGED colors_conf
        /\ UNCHANGED non_palette_vars

\* can_open: fopen (path, "w") gave a stream.
palette_save(can_open) ==
    /\ palette_call' = [op |-> "palette_save", opened |-> can_open]
    /\ colors_conf' = IF can_open THEN palette_file(palette_colors) ELSE colors_conf
    /\ UNCHANGED <<palette_colors, default_palette_colors, palette_defaults_saved>>
    /\ UNCHANGED non_palette_vars

palette_reset ==
    /\ palette_call' = [op |-> "palette_reset"]
    /\ palette_colors' =
          IF palette_defaults_saved THEN default_palette_colors ELSE palette_colors
    /\ UNCHANGED <<default_palette_colors, palette_defaults_saved, colors_conf>>
    /\ UNCHANGED non_palette_vars

(***************************************************************************)
(* Inputs.                                                                 *)
(***************************************************************************)
\* Messages of the session specification.
SessionTexts ==
    { << >>,
      <<1, 3, 52, 2, 31, 22, 15, 7, 97>>,
      <<87, 119, 119, 46>>,
      <<97, 2, 31, 1>>,
      <<98>> }

\* Fragments of the messages of the transcoder specification.
Frags ==
    { <<1>>,
      ActionMarker,
      <<2>>,
      <<31>>,
      <<15>>,
      <<22>>,
      <<7>>,
      <<3>>,
      <<52>>,
      <<44>>,
      <<87, 119, 119, 46>>,
      <<97>>,
      <<SP>>,
      <<NL>>,
      <<60, 98, 62>>,
      <<42, SP, 98, SP>>,
      <<60>>,
      <<62>>,
      <<195, 169>> }

RECURSIVE FragSeqs(_)
FragSeqs(n) ==
    IF n = 0 THEN { << >> }
    ELSE { << >> } \cup { f \o t : f \in Frags, t \in FragSeqs(n - 1) }

Texts == FragSeqs(MaxFrags)

\* The seven control bytes, a comma, a digit and a URL prefix.
TermFrags ==
    { <<1>>, <<2>>, <<3>>, <<7>>, <<15>>, <<22>>, <<31>>, <<44>>, <<52>>,
      <<87, 119, 119, 46>> }

RECURSIVE TermSeqs(_)
TermSeqs(n) ==
    IF n = 0 THEN { << >> }
    ELSE { << >> } \cup { f \o t : f \in TermFrags, t \in TermSeqs(n - 1) }

TermTexts == TermSeqs(MaxFrags)

BufferRoom(s) ==
    IF s \in DOMAIN session_ui_map
    THEN Len(session_ui_map[s].buffer) + Len(session_ui_map[s].style_buffer) <= MaxBuf
    ELSE TRUE

\* The characters of the input field: a b B ' - space and e-acute (two bytes).
SpellChars == { <<97>>, <<98>>, <<66>>, <<39>>, <<45>>, <<SP>>, <<195, 169>> }

RECURSIVE CharSeqs(_)
CharSeqs(n) ==
    IF n = 0 THEN { << >> }
    ELSE { << >> } \cup { c \o t : c \in SpellChars, t \in CharSeqs(n - 1) }

SpellTexts == CharSeqs(MaxChars)

\* Words for spell_check_word beside the texts: "http", "HtTp", "ftp:", "Irc:",
\* "ftp", "ircx", and "A", which only the German dictionary knows.
SchemeWords ==
    { <<104, 116, 116, 112>>, <<72, 116, 84, 112>>, <<102, 116, 112, 58>>,
      <<73, 114, 99, 58>>, <<102, 116, 112>>, <<105, 114, 99, 120>>, <<65>> }

\* The words "Ignore All" is chosen for (the empty word: the call does nothing).
IgnoreWords == { << >>, <<98>>, <<66>> }

\* The configured language lists, split at the separators: an empty token comes
\* from two separators in a row, "xx" is a language no broker resolves.
LangPrefs == { <<"en">>, <<"de", "", "en">>, <<"xx">> }

\* What the broker of the machine can resolve.
InstalledChoices == { {}, {"en"}, {"en", "de"} }

\* The strings a dictionary suggests: SuggStr(1), SuggStr(2), ...
SuggStr(k) == <<96 + k>>

\* n suggestions from the a-th on, starting over after the NumSugg-th.
SuggRun(a, n) == [i \in 1..n |-> SuggStr(((a + i - 2) % NumSugg) + 1)]

\* What enchant_dict_suggest can return: nothing, a few strings, NumSugg distinct
\* strings, or a list that repeats its first strings at the end.
SuggLists ==
    { SuggRun(a, n) : a \in {1, 3}, n \in {0, 4, NumSugg, NumSugg + 2} }

\* The entries the palette dialog sets, with two indices outside the palette.
PaletteIndices == {-1, 31, 32, MAX_COL + 1}

PaletteChoices == { <<0, 0, 0>>, <<255, 128, 7>> }

\* A colors.conf written by hand: a GTK-style entry without blanks, with a value
\* above 255 and a negative one; a line that is no entry; an index past the last
\* special color; an entry with a value missing.
HandFile ==
    [exists |-> TRUE,
     lines  |-> << ColorKey \o <<50, 54, 53, 61, 51, 48, 48, SP, 45, 49, SP, 55, NL>>,
                   <<99, 111, 108, 111, 117, 114, NL>>,
                   ColorKey \o <<50, 54, 54, SP, 61, SP, 49, SP, 50, SP, 51, NL>>,
                   ColorKey \o <<48, SP, 61, SP, 49, SP, 50, NL>> >>]

InitialFiles == { NoFile, HandFile }

TextInit == hex_stamp_text \in BOOLEAN /\ TextIdle

Init ==
    /\ TextInit
    /\ SpellIdle
    /\ PaletteIdle
    /\ InputIdle
    /\ colors_conf = NoFile
    /\ hex_gui_input_spell = TRUE
    /\ hex_text_spell_langs = <<"en">>
    /\ installed = {"en"}

Next ==
    \/ /\ pc = "idle"
       /\ \E s \in Sessions, t \in SessionTexts, tb \in Clock :
              BufferRoom(s) /\ append_text_enter(s, t, tb)
    \/ ScanStep
    \/ \E s \in Sessions : fe_text_clear(s)
    \/ \E s \in Sessions : fe_close_window(s)
    \/ \E v \in BOOLEAN : prefs_save_stamp(v)

Spec == Init /\ [][Next]_vars

\* The transcoder alone: one call on a fresh session, for every message and clock.
ScanNext ==
    \/ /\ pc = "idle" /\ DOMAIN session_ui_map = {}
       /\ \E t \in Texts, tb \in Clock : append_text_enter("s1", t, tb)
    \/ ScanStep

SpecScan == Init /\ [][ScanNext]_vars

\* Foregrounds: none, the sixteen colors, and numbers past them.
Foregrounds == -1..17

\* The transcoder as above, and style_for_state on its own for every combination
\* of its flags and every foreground.
StyleNext ==
    \/ /\ pc = "idle" /\ DOMAIN session_ui_map = {} /\ ret = NoCall
       /\ \E t \in Texts, tb \in Clock : append_text_enter("s1", t, tb)
    \/ ScanStep
    \/ /\ pc = "idle" /\ DOMAIN session_ui_map = {} /\ ret = NoCall
       /\ \E h \in BOOLEAN, c \in BOOLEAN, b \in BOOLEAN, u \in BOOLEAN, f \in Foregrounds :
              call_style_for_state(h, c, f, b, u)

SpecStyle == Init /\ [][StyleNext]_vars

\* The user lists: every event on every session, idle turns and closed windows.
UserlistNext ==
    \/ \E s \in Sessions, n \in Nicks \cup {NoUser}, x \in Prefixes : fe_userlist_insert(s, n, x)
    \/ \E s \in Sessions, n \in Nicks \cup {NoUser} : fe_userlist_remove(s, n)
    \/ \E s \in Sessions : fe_userlist_rehash(s)
    \/ \E s \in Sessions, n \in Nicks \cup {NoUser}, x \in Prefixes : fe_userlist_update(s, n, x)
    \/ \E s \in Sessions : fe_userlist_clear(s)
    \/ userlist_idle_cb
    \/ \E s \in Sessions : fe_close_window(s)

SpecUserlist == Init /\ [][UserlistNext]_vars

\* The main loop runs a source that is pending.
SpecUserlistFair == SpecUserlist /\ WF_vars(userlist_idle_cb)

\* The transcoder on messages of control bytes, digits, commas and URL prefixes.  The
\* call runs on the thread that made it: a step that can be taken is taken.
TermNext ==
    \/ /\ pc = "idle" /\ DOMAIN session_ui_map = {}
       /\ \E t \in TermTexts, tb \in Clock : append_text_enter("s1", t, tb)
    \/ ScanStep

SpecTerm == Init /\ [][TermNext]_vars /\ WF_vars(ScanStep)

\* The spell annotator: every call in every order, on every machine and language list.
SpellInit ==
    /\ hex_stamp_text = FALSE
    /\ TextIdle
    /\ SpellIdle
    /\ PaletteIdle
    /\ InputIdle
    /\ colors_conf = NoFile
    /\ hex_gui_input_spell = TRUE
    /\ hex_text_spell_langs \in LangPrefs
    /\ installed \in InstalledChoices

\* The three queries change nothing but ret: a call that follows a query leads
\* where it leads without the query.  So the calls are taken from the states that
\* are not the result of a query, and each query is looked at where it is made.
Queries == {"spell_check_word", "spell_find_words", "spell_get_suggestions"}

SpellNext ==
    \/ /\ ret.op \notin Queries
       /\ \E found \in BOOLEAN : initialize_enchant(found)
    \/ /\ ret.op \notin Queries
       /\ \E ok \in BOOLEAN : spell_init_broker(ok)
    \/ /\ ret.op \notin Queries
       /\ spell_cleanup
    \/ /\ ret.op \notin Queries
       /\ \E w \in IgnoreWords : spell_ignore_word(w)
    \/ /\ ret.op \notin Queries
       /\ \E w \in SpellTexts \cup SchemeWords : call_spell_check_word(w)
    \/ /\ ret.op \notin Queries
       /\ \E text \in SpellTexts : call_spell_find_words(text)
    \/ /\ ret.op \notin Queries
       /\ \E w \in {<< >>, <<98>>}, lists \in [1..Len(spell_dicts) -> SuggLists] :
              call_spell_get_suggestions(w, lists)

SpecSpell == SpellInit /\ [][SpellNext]_vars

\* The preferences: the program starts with either setting of the spell option,
\* then the window is saved with every option and language list, in every order.
PrefsInit ==
    /\ hex_stamp_text = FALSE
    /\ TextIdle
    /\ SpellIdle
    /\ PaletteIdle
    /\ InputIdle
    /\ colors_conf = NoFile
    /\ hex_gui_input_spell \in BOOLEAN
    /\ hex_text_spell_langs \in LangPrefs
    /\ installed \in InstalledChoices

PrefsNext ==
    \/ /\ ret.op = "none"
       /\ \E found \in BOOLEAN, ok \in BOOLEAN : fe_init(found, ok)
    \/ /\ ret.op # "none"
       /\ \E enable \in BOOLEAN, langs \in LangPrefs, ok1 \in BOOLEAN, ok2 \in BOOLEAN :
              prefs_save_cb(enable, langs, ok1, ok2)
    \/ /\ ret.op # "none"
       /\ \E w \in IgnoreWords : spell_ignore_word(w)

SpecPrefs == PrefsInit /\ [][PrefsNext]_vars

\* What the dictionaries suggest to the menu: nothing, or four strings.
MenuSuggLists == { SuggRun(1, n) : n \in {0, 4} }

MenuPicks == {MenuNothing, MenuAdd, MenuIgnore, 0, 1}

\* The input box: the program starts, a line is typed into the empty box, and the
\* right button is pressed at every character position, with every choice from the
\* menu, again and again.
InputInit ==
    /\ hex_stamp_text = FALSE
    /\ TextIdle
    /\ SpellIdle
    /\ PaletteIdle
    /\ InputIdle
    /\ colors_conf = NoFile
    /\ hex_gui_input_spell = TRUE
    /\ hex_text_spell_langs = <<"en">>
    /\ installed \in { {}, {"en"} }

InputNext ==
    \/ /\ ret.op = "none"
       /\ \E found \in BOOLEAN, ok \in BOOLEAN : fe_init(found, ok)
    \/ /\ ret.op # "none" /\ input_value = << >>
       /\ \E text \in SpellTexts : input_typed(text)
    \/ /\ ret.op # "none"
       /\ \E pos \in 0..MaxChars, pick \in MenuPicks,
             lists \in [1..Len(spell_dicts) -> MenuSuggLists] :
              SpellInput_handle(pos, pick, lists)

SpecInput == InputInit /\ [][InputNext]_vars

\* The palette: every call in every order, with and without a colors.conf.
PaletteInit ==
    /\ hex_stamp_text = FALSE
    /\ TextIdle
    /\ SpellIdle
    /\ hex_gui_input_spell = TRUE
    /\ hex_text_spell_langs = <<"en">>
    /\ installed = {"en"}
    /\ PaletteIdle
    /\ InputIdle
    /\ colors_conf \in InitialFiles

PaletteNext ==
    \/ \E i \in PaletteIndices, c \in PaletteChoices : palette_set_color(i, c)
    \/ \E can_open \in BOOLEAN : palette_load(can_open)
    \/ \E can_open \in BOOLEAN : palette_save(can_open)
    \/ palette_reset

SpecPalette == PaletteInit /\ [][PaletteNext]_vars

(***************************************************************************)
(* Properties of append_text and of the session buffers.                   *)
(***************************************************************************)
Last(s) == s[Len(s)]

\* The prefix the timestamp puts before the message: tbuf and one space.
StampPrefix == IF tbuf # << >> THEN tbuf \o <<SP>> ELSE << >>

\* A step of the scan loop that emits one ordinary character (a URL run is at
\* least four bytes long).
CharStep == pc = "scan" /\ pc' = "scan" /\ Len(out') = Len(out) + 1

\* The seven bytes the control-byte table of the transcoder lists.
ControlBytes == {1, 2, 3, 7, 15, 22, 31}

\* C1: each time append_text returns, the style buffer of the session is as long
\* as its text buffer.
C1_StyleBufferAsLongAsText ==
    [][(pc = "flush" /\ pc' = "idle") =>
          Len(session_ui_map'[sess].style_buffer) = Len(session_ui_map'[sess].buffer)]_vars

\* C2: the visible string and the style string of a call have equal length, after
\* the timestamp prefix, the action branch, every URL run, every character and the
\* trailing newline, up to the moment they are appended.
C2_OutAndStylesEqualLength == Len(styles) = Len(out)

\* A call about to append a stamped message with a URL run, an ordinary character
\* and the trailing newline.
C2_Witness ==
    /\ pc = "flush" /\ tbuf # << >>
    /\ \E i \in 1..Len(styles) : styles[i] = StyleA + HYPERLINK
    /\ \E i \in 1..Len(styles) : styles[i] = StyleA /\ out[i] = 97
    /\ Last(out) = NL

\* The foreground the color introducers and resets before index i ask for: the
\* one or two digits after the last introducer, none (-1) after an introducer
\* without digits, after a reset or with no introducer at all.
RECURSIVE LastFgControl(_, _)
LastFgControl(s, j) ==
    IF j < 1 THEN 0
    ELSE IF s[j] = 3 \/ s[j] = 15 THEN j ELSE LastFgControl(s, j - 1)

ClaimedFg(s, i) ==
    LET j == LastFgControl(s, i - 1)
    IN  IF j = 0 \/ s[j] = 15 THEN -1
        ELSE LET d1 == At(s, j + 1)
                 d2 == At(s, j + 2)
             IN  IF d1 < 48 \/ d1 > 57 THEN -1
                 ELSE IF d2 < 48 \/ d2 > 57 THEN d1 - 48
                 ELSE (d1 - 48) * 10 + (d2 - 48)

\* C3: after a color introducer with digits c in 0..15 the visible characters
\* (outside URL runs and the nick span, bold and underline off) carry the plain
\* color slot 3 + c; after an introducer without digits they carry the base slot.
C3_ColorIntroducerSelectsSlot ==
    [][(CharStep /\ ~bold /\ ~underline /\ nick_start < 0) =>
          LET c == ClaimedFg(msg, p)
          IN  /\ c \in 0..15 => Last(styles') = StyleA + 3 + c
              /\ (c = -1 /\ ~in_ctcp) => Last(styles') = StyleA]_vars

\* The tags of a message in which only bold toggles change the style: bold-default
\* after an odd number of toggles, base after an even number.
RECURSIVE BoldTags(_, _)
BoldTags(s, b) ==
    IF s = << >> THEN << >>
    ELSE IF Head(s) = 2 THEN BoldTags(Tail(s), ~b)
    ELSE <<IF b THEN StyleA + N_REGION ELSE StyleA>> \o BoldTags(Tail(s), b)

NotBoldToggle(b) == b # 2

\* No nick prefix was detected, no URL starts anywhere and the only control bytes
\* are bold toggles.
BoldOnlyMessage ==
    /\ nick_start < 0
    /\ \A i \in 1..Len(msg) : msg[i] \notin ControlBytes \ {2}
    /\ \A i \in 1..Len(msg) : ~looks_like_url(msg, i)

\* C4: a bold toggle produces no output; the visible characters after an odd number
\* of toggles carry slot 19, the ones after an even number slot 0.
C4_BoldToggle ==
    (pc = "flush" /\ BoldOnlyMessage) =>
        LET vis  == SelectSeq(msg, NotBoldToggle)
            from == Len(StampPrefix)
        IN  /\ SubSeq(out, 1, from + Len(vis)) = StampPrefix \o vis
            /\ SubSeq(styles, from + 1, from + Len(vis)) = BoldTags(msg, FALSE)

\* "a\x02a": a base tag, then a bold tag.
C4_Witness ==
    /\ pc = "flush" /\ BoldOnlyMessage
    /\ msg = <<97, 2, 97>>
    /\ tbuf = << >>
    /\ out = <<97, 97, NL>>
    /\ styles = <<StyleA, StyleA + N_REGION, StyleA>>

\* The message is the ACTION marker, a body and a closing delimiter.
ActionMessage ==
    /\ Len(msg) >= 9
    /\ SubSeq(msg, 1, 8) = ActionMarker
    /\ msg[Len(msg)] = 1

\* C5: an ACTION message is shown as "* " and the body without the closing
\* delimiter, all of it in the action slot, with no other processing of the body.
C5_ActionBody ==
    (pc = "flush" /\ ActionMessage) =>
        LET shown == StampPrefix \o <<42, SP>> \o SubSeq(msg, 9, Len(msg) - 1)
        IN  /\ out = IF Last(shown) = NL THEN shown ELSE Append(shown, NL)
            /\ \A i \in Len(StampPrefix) + 1 .. Len(shown) : styles[i] = StyleA + 1

\* An ACTION message whose body is a URL prefix.
C5_Witness ==
    /\ pc = "flush" /\ ActionMessage
    /\ msg = ActionMarker \o <<87, 119, 119, 46>> \o <<1>>
    /\ out = StampPrefix \o <<42, SP, 87, 119, 119, 46, NL>>

\* The URL prefixes, in lower case.
UrlPrefixes ==
    { <<104, 116, 116, 112, 58, 47, 47>>,
      <<104, 116, 116, 112, 115, 58, 47, 47>>,
      <<102, 116, 112, 58, 47, 47>>,
      <<105, 114, 99, 58, 47, 47>>,
      <<119, 119, 119, 46>> }

LowerCase(b) == IF b \in 65..90 THEN b + 32 ELSE b

StartsUrl(s, i) ==
    \E pre \in UrlPrefixes :
        /\ i + Len(pre) - 1 <= Len(s)
        /\ \A k \in 1..Len(pre) : LowerCase(s[i + k - 1]) = pre[k]

\* The end of the maximal run of non-whitespace bytes >= 0x20 that starts at i.
RunEnd(s, i) ==
    CHOOSE j \in i..Len(s) + 1 :
        /\ j = Len(s) + 1 \/ s[j] <= SP
        /\ \A k \in i..j - 1 : s[k] > SP

\* C6: where the scan stands on a URL prefix, the whole run up to the next white
\* space or byte below 0x20 is emitted in the hyperlink slot, whatever the bold,
\* underline, foreground and CTCP state; in a message without control bytes and
\* nick prefix every other character is in the base slot.
C6_UrlRun ==
    [][/\ (pc = "scan" /\ p <= Len(msg) /\ msg[p] \notin ControlBytes
              /\ StartsUrl(msg, p)) =>
           LET e == RunEnd(msg, p)
           IN  /\ out' = out \o SubSeq(msg, p, e - 1)
               /\ styles' = styles \o Repeat(StyleA + HYPERLINK, e - p)
               /\ p' = e
       /\ (CharStep /\ nick_start < 0
              /\ \A i \in 1..Len(msg) : msg[i] \notin ControlBytes) =>
           Last(styles') = StyleA]_vars

\* A URL run was emitted while bold was on, and the message goes on.
C6_Witness ==
    /\ pc = "scan" /\ bold
    /\ p <= Len(msg)
    /\ Len(styles) >= 4
    /\ \A i \in Len(styles) - 3 .. Len(styles) : styles[i] = StyleA + HYPERLINK

\* No control byte, no URL prefix at any position, no nick prefix detected.
PlainMessage ==
    /\ nick_start < 0
    /\ \A i \in 1..Len(msg) : msg[i] \notin ControlBytes
    /\ \A i \in 1..Len(msg) : ~StartsUrl(msg, i)

\* C7: every tag of a plain message (timestamp prefix, characters, trailing
\* newline) is the base slot.
C7_PlainTextIsBase ==
    (pc = "flush" /\ PlainMessage) =>
        LET shown == StampPrefix \o msg
        IN  /\ out = IF shown # << >> /\ Last(shown) = NL THEN shown ELSE Append(shown, NL)
            /\ styles = Repeat(StyleA, Len(out))

\* A stamped plain message of three characters.
C7_Witness ==
    /\ pc = "flush" /\ PlainMessage
    /\ tbuf # << >>
    /\ msg = <<97, SP, 97>>
    /\ Len(styles) = 7


(***************************************************************************)
(* Properties of the spell annotator.  ret is the last call and its        *)
(* result; the queries leave the rest of the state as it was at the call.  *)
(***************************************************************************)
\* The word of a span of the text.
SpanWord(text, span) == SubSeq(text, span.start + 1, span.end)

\* Two words that differ in the case of their ASCII letters at most.
SameButCase(w, v) ==
    /\ Len(w) = Len(v)
    /\ \A k \in 1..Len(w) : LowerCase(w[k]) = LowerCase(v[k])

RejectedByDicts(word) ==
    \A k \in 1..Len(spell_dicts) : ~enchant_dict_check_ok(spell_dicts[k], word)

\* C8: with the provider unavailable or with no dictionary loaded, spell_check_word
\* answers "correct" for every word and spell_find_words marks no span misspelled,
\* whatever the text is (empty or without a letter included).
C8_NoProviderNothingMisspelled ==
    (~have_enchant \/ spell_dicts = << >>) =>
        /\ ret.op = "spell_check_word" => ret.val
        /\ ret.op = "spell_find_words" =>
              \A i \in 1..Len(ret.val) : ~ret.val[i].misspelled

\* The library is there and a broker was made, but no dictionary could be loaded;
\* the text has two words, neither of them ignored.
C8_Witness ==
    /\ have_enchant /\ spell_broker # "null" /\ spell_dicts = << >>
    /\ spell_session_ignores = {}
    /\ ret.op = "spell_find_words"
    /\ ret.text = <<98, SP, 66>>
    /\ Len(ret.val) = 2

\* C9: spell_ignore_word(w) with a non-empty w puts w into the session ignores, w
\* stays there until spell_cleanup clears them, and spell_find_words reports every
\* span whose word is in them as not misspelled, with or without a provider and
\* whatever the dictionaries say; a span whose word is not itself ignored and that
\* the loaded dictionaries reject is misspelled, also when it differs from an
\* ignored word in letter case only.
C9_IgnoredWordNotMisspelled ==
    [][/\ (ret'.op = "spell_ignore_word" /\ ret'.word # << >>) =>
              ret'.word \in spell_session_ignores'
       /\ ret'.op # "spell_cleanup" => spell_session_ignores \subseteq spell_session_ignores'
       /\ ret'.op = "spell_find_words" =>
              \A i \in 1..Len(ret'.val) :
                  LET v == SpanWord(ret'.text, ret'.val[i])
                  IN  /\ v \in spell_session_ignores => ~ret'.val[i].misspelled
                      /\ ( /\ v \notin spell_session_ignores
                           /\ \E w \in spell_session_ignores :
                                 SameButCase(w, v)
                           /\ have_enchant /\ spell_dicts # << >>
                           /\ RejectedByDicts(v) )
                         => ret'.val[i].misspelled]_vars

\* "b" was ignored before the dictionaries were loaded, so they reject it; in the
\* text "b B" the span of "b" is not misspelled and the span of "B" is.
C9_Witness ==
    /\ have_enchant /\ spell_dicts # << >>
    /\ <<98>> \in spell_session_ignores /\ <<66>> \notin spell_session_ignores
    /\ RejectedByDicts(<<98>>)
    /\ ret.op = "spell_find_words"
    /\ ret.text = <<98, SP, 66>>
    /\ ret.val = << [start |-> 0, end |-> 1, misspelled |-> FALSE],
                    [start |-> 2, end |-> 3, misspelled |-> TRUE] >>

\* C10: spell_get_suggestions returns at most 10 strings, no two of them equal,
\* for every word, every number of loaded dictionaries and every list they offer.
C10_AtMostTenDistinctSuggestions ==
    ret.op = "spell_get_suggestions" =>
        /\ Len(ret.val) <= 10
        /\ \A i, j \in 1..Len(ret.val) : i # j => ret.val[i] # ret.val[j]

\* Two dictionaries: the first offers four strings, the second more than ten, with
\* strings of the first among them and its own first strings repeated at the end.
C10_Witness ==
    /\ ret.op = "spell_get_suggestions"
    /\ Len(spell_dicts) = 2
    /\ ret.lists[1] = SuggRun(3, 4)
    /\ ret.lists[2] = SuggRun(1, NumSugg + 2)
    /\ Len(ret.val) = 10


(***************************************************************************)
(* Properties of the palette.                                              *)
(***************************************************************************)
\* The stores a written file is loaded into: the initial one and an all-zero one.
FreshStores == {InitialPalette, ZeroPalette}

\* C11: the file palette_save writes holds index 0..31 under its own number and
\* index 32..41 under 256..265, and palette_load of that file, into any fresh
\* store, yields the (r,g,b) that was saved for every index 0..41.
C11_SaveLoadRoundTrip ==
    [][(palette_call'.op = "palette_save" /\ palette_call'.opened) =>
          /\ \A i \in 0..MAX_COL :
                sscanf_color(colors_conf'.lines[i + 1]).idx =
                    IF i <= 31 THEN i ELSE 256 + (i - 32)
          /\ \A store \in FreshStores :
                load_lines(store, colors_conf'.lines, 1) = palette_colors]_vars

\* A palette with entries 31 and 32 changed was saved: line 33 of the file is
\* "color_256 = 255 128 7", and the file was then loaded back over other contents.
C11_Witness ==
    /\ palette_call.op = "palette_load" /\ palette_call.opened
    /\ Len(colors_conf.lines) = MAX_COL + 1
    /\ colors_conf.lines[33] =
          ColorKey \o <<50, 53, 54, SP, 61, SP, 50, 53, 53, SP, 49, 50, 56, SP, 55, NL>>
    /\ colors_conf = palette_file(palette_colors)
    /\ palette_colors[31] = <<0, 0, 0>>
    /\ palette_colors[32] = <<255, 128, 7>>
    /\ palette_colors # default_palette_colors


(***************************************************************************)
(* Properties of the nick color hash.                                      *)
(***************************************************************************)
\* The nickname append_text detected in the message.
DetectedNick == SubSeq(msg, nick_start + 1, nick_start + nick_len)

\* The sum of the byte values s[1..n].
RECURSIVE ByteTotal(_, _)
ByteTotal(s, n) == IF n = 0 THEN 0 ELSE ByteTotal(s, n - 1) + s[n]

\* C12: the color of the detected nickname is the sum of its byte values modulo
\* 16, a value in 0..15, for the empty nickname and for bytes >= 0x80 too; being
\* determined by the bytes alone it is the same for every call with that name.
C12_HashIsByteSumMod16 ==
    nick_start >= 0 =>
        /\ nick_color \in 0..15
        /\ \E q \in 0..(16 * Len(DetectedNick)) :
              ByteTotal(DetectedNick, Len(DetectedNick)) = 16 * q + nick_color

\* The nickname of "<" e-acute ">" has two bytes above 0x7f: 195 + 169 = 22 * 16 + 12.
C12_Witness ==
    /\ pc = "scan"
    /\ nick_start = 1
    /\ DetectedNick = <<195, 169>>
    /\ nick_color = 12


(***************************************************************************)
(* Termination of append_text.                                             *)
(***************************************************************************)
\* C13: every iteration of the scan loop moves the read position forward by at
\* least one byte and never past the terminator, whatever the bytes are, and every
\* call that was entered returns (with its output appended: see C14).
C13_AppendTextTerminates ==
    /\ [][(pc = "scan" /\ pc' = "scan") => (p' > p /\ p' <= Len(msg) + 1)]_vars
    /\ (pc # "idle") ~> (pc = "idle" /\ DOMAIN session_ui_map # {})

\* The loop has reached the end of a message that is an unterminated CTCP
\* delimiter, a color introducer without digits and a URL prefix at the very end
\* of the text.
C13_Witness ==
    /\ pc = "scan"
    /\ msg = <<1, 3, 87, 119, 119, 46>>
    /\ p = Len(msg) + 1
    /\ in_ctcp
    /\ out = <<87, 119, 119, 46>>


(***************************************************************************)
(* The trailing newline.                                                   *)
(***************************************************************************)
\* C14: past the scan loop or the action branch, one newline with the base tag is
\* added to the text and to the styles when the text is empty or does not end in a
\* newline, and nothing is added when it ends in one; so the text a call appends
\* to the buffer of its session ends with a newline.
C14_TrailingNewline ==
    [][/\ (pc # "flush" /\ pc' = "flush") =>
              IF out = << >> \/ Last(out) # NL
              THEN out' = out \o <<NL>> /\ styles' = styles \o <<StyleA>>
              ELSE out' = out /\ styles' = styles
       /\ (pc = "flush" /\ pc' = "idle") =>
              /\ out # << >> /\ Last(out) = NL
              /\ session_ui_map'[sess].buffer = session_ui_map[sess].buffer \o out]_vars

\* The message "a\n" is about to be appended as it is, with two base tags.
C14_Witness ==
    /\ pc = "flush"
    /\ msg = <<97, NL>>
    /\ out = StampPrefix \o <<97, NL>>
    /\ styles = stamp_styles(tbuf) \o <<StyleA, StyleA>>
    /\ tbuf # << >>


(***************************************************************************)
(* The life of the enchant handles.                                        *)
(***************************************************************************)
\* C15: in every state spell_cleanup frees each dictionary handle of spell_dicts
\* once, while the handle and its broker are live, then the broker, once and while
\* it is live; it frees nothing when there is no broker, as after a cleanup.  No
\* call leaves a live handle that no variable holds, and the handles the variables
\* hold are live.
C15_CleanupFreesEachHandleOnce ==
    [][/\ enchant_live'.lost = 0
       /\ enchant_live'.broker <=> (spell_broker' # "null")
       /\ Len(enchant_live'.dicts) = Len(spell_dicts')
       /\ \A k \in 1..Len(spell_dicts') : enchant_live'.dicts[k] /\ enchant_live'.broker
       /\ ret'.op = "spell_cleanup" =>
             /\ Len(ret'.freed) = IF spell_broker # "null" THEN Len(spell_dicts) + 1 ELSE 0
             /\ \A k \in 1..Len(ret'.freed) :
                   /\ ret'.freed[k].live /\ ret'.freed[k].broker_live
                   /\ ret'.freed[k].kind = IF k <= Len(spell_dicts) THEN "dict" ELSE "broker"
             /\ spell_broker' = "null" /\ spell_dicts' = << >>
             /\ ret.op = "spell_cleanup" => ret'.freed = << >>]_vars

\* A cleanup has freed two dictionaries and then their broker.
C15_Witness ==
    /\ ret.op = "spell_cleanup"
    /\ Len(ret.freed) = 3
    /\ ret.freed[1].kind = "dict" /\ ret.freed[3].kind = "broker"
    /\ spell_broker = "null" /\ ~enchant_live.broker


(***************************************************************************)
(* The deferred refresh of the user lists.                                 *)
(***************************************************************************)
\* C16: at most one userlist_idle_cb source is pending; a source is registered
\* only by a step that finds the latch false, and the latch is true exactly while
\* a source is pending.
C16_OneRefreshPending ==
    [][/\ idle_sources' <= 1
       /\ userlist_idle_scheduled' <=> (idle_sources' = 1)
       /\ idle_sources' > idle_sources => ~userlist_idle_scheduled]_vars

\* Both sessions were changed since the last idle turn, and one source is pending.
C16_Witness ==
    /\ DOMAIN session_ui_map = Sessions
    /\ \A s \in Sessions : session_ui_map[s].userlist_dirty
    /\ session_ui_map["s1"].users # << >>
    /\ session_ui_map["s1"].user_browser # << >>
    /\ userlist_idle_scheduled /\ idle_sources = 1


(***************************************************************************)
(* The classification of a word.                                           *)
(***************************************************************************)
\* "http", "ftp:", "irc:"
Schemes == { <<104, 116, 116, 112>>, <<102, 116, 112, 58>>, <<105, 114, 99, 58>> }

\* Rule 1: four bytes or more, the first four a scheme in any letter case.
HasSchemePrefix(w) ==
    /\ Len(w) >= 4
    /\ \E sch \in Schemes : \A k \in 1..4 : LowerCase(w[k]) = sch[k]

\* Rule 2: the first codepoint is not alphabetic.
StartsNonAlphabetic(w) == ~g_unichar_isalpha(g_utf8_get_char(w, 1))

\* C17: with a dictionary loaded, a non-empty word is correct when it has a scheme
\* prefix (1), starts with a codepoint that is not alphabetic (2), is in the
\* session ignores as it is (3) or is accepted by one of the loaded dictionaries
\* (4), and is misspelled exactly when none of these holds.
C17_ClassificationRules ==
    (ret.op = "spell_check_word" /\ spell_dicts # << >> /\ ret.word # << >>) =>
        (ret.val <=> \/ HasSchemePrefix(ret.word)
                     \/ StartsNonAlphabetic(ret.word)
                     \/ ret.word \in spell_session_ignores
                     \/ ~RejectedByDicts(ret.word))

\* "HtTp" is correct by rule 1 alone: no dictionary knows it and it is not ignored.
C17_Witness ==
    /\ ret.op = "spell_check_word"
    /\ ret.word = <<72, 116, 84, 112>>
    /\ Len(spell_dicts) = 2
    /\ RejectedByDicts(ret.word)
    /\ ret.val


(***************************************************************************)
(* The nick color.                                                         *)
(***************************************************************************)
\* The slot of a character that carries the color of the nickname.
NickSlot == 3 + nick_color + (IF bold THEN N_REGION ELSE IF underline THEN 2 * N_REGION ELSE 0)

\* The byte at the read position belongs to the detected nickname.
InNickname == p - 1 >= nick_start /\ p - 1 < nick_start + nick_len

\* C18: in a message with a detected nickname, an ordinary visible character
\* carries the nick color slot exactly when it is a character of the nickname,
\* with and without a timestamp prefix and with control bytes in the prefix; the
\* other characters carry the tag of the foreground in force, which the override
\* leaves as it was.
C18_NickColorOnNicknameOnly ==
    [][(CharStep /\ nick_start >= 0) =>
          /\ Last(styles') =
                IF InNickname THEN StyleA + NickSlot
                ELSE style_for_state(FALSE, in_ctcp, fg, bold, underline)
          /\ fg' = fg]_vars


(***************************************************************************)
(* The dictionaries spell_init_broker loads.                               *)
(***************************************************************************)
\* C19: every dictionary held in spell_dicts, the one loaded through the "en"
\* fallback included, has "HexChat", "FlexChat" and "IRC" in its session
\* vocabulary; the fallback is requested only when no configured token resolved,
\* and once.
C19_EveryDictionarySeeded ==
    /\ \A k \in 1..Len(spell_dicts) : DomainTerms \subseteq dict_session[spell_dicts[k]]
    /\ spell_dicts # << >> =>
          \/ spell_dicts = request_dicts(hex_text_spell_langs, 1)
          \/ request_dicts(hex_text_spell_langs, 1) = << >> /\ spell_dicts = <<"en">>


\* C20: spell_cleanup and spell_init_broker change only the dictionary handles
\* and the broker: the session ignore set is the same after either call as
\* before it, so a word ignored earlier stays ignored across a teardown and a
\* re-initialisation.
C20_IgnoresSurviveTeardown ==
    [][ret'.op \in {"spell_cleanup", "spell_init_broker"} =>
          spell_session_ignores' = spell_session_ignores]_vars


(***************************************************************************)
(* The snapshot of the palette.                                            *)
(***************************************************************************)
\* C21: after any sequence of palette_set_color, palette_load and palette_save,
\* palette_reset restores every entry 0..41 to the value it had before the first
\* operation touched the store, and a snapshot once taken is never overwritten.
C21_ResetRestoresFirstValues ==
    [][/\ palette_call'.op = "palette_reset" => palette_colors' = InitialPalette
       /\ palette_defaults_saved => default_palette_colors' = default_palette_colors]_vars


(***************************************************************************)
(* The refresh of dirty user lists.                                        *)
(***************************************************************************)
\* The browser of the session shows its users.
Shown(s) ==
    /\ ~session_ui_map[s].userlist_dirty
    /\ session_ui_map[s].user_browser = browser_rows(session_ui_map[s].users, 1)

\* C22: while a session is dirty a refresh callback is pending; the callback
\* rebuilds the browser of every session that is dirty when it runs, clears those
\* flags and releases the latch; so every dirty session is shown at a later idle
\* turn unless it is closed, whatever sessions are created or closed meanwhile.
C22_DirtySessionsAreRefreshed ==
    /\ [](\A s \in DOMAIN session_ui_map :
             session_ui_map[s].userlist_dirty =>
                userlist_idle_scheduled /\ idle_sources = 1)
    /\ [][idle_sources' < idle_sources =>
             /\ DOMAIN session_ui_map' = DOMAIN session_ui_map
             /\ \A s \in DOMAIN session_ui_map :
                   /\ ~session_ui_map'[s].userlist_dirty
                   /\ session_ui_map'[s].users = session_ui_map[s].users
                   /\ session_ui_map'[s].user_browser =
                         IF session_ui_map[s].userlist_dirty
                         THEN browser_rows(session_ui_map[s].users, 1)
                         ELSE session_ui_map[s].user_browser
             /\ ~userlist_idle_scheduled']_vars
    /\ \A s \in Sessions :
          (s \in DOMAIN session_ui_map /\ session_ui_map[s].userlist_dirty)
             ~> (s \notin DOMAIN session_ui_map \/ Shown(s))

\* An idle turn has run with both sessions open: an operator and a plain user are
\* shown in the first, the second is shown after its users were cleared.
C22_Witness ==
    /\ DOMAIN session_ui_map = Sessions
    /\ ~userlist_idle_scheduled /\ idle_sources = 0
    /\ session_ui_map["s1"].users = users_put(users_put(<< >>, "al", "@"), "bo", "")
    /\ session_ui_map["s1"].user_browser = << <<"@@", "al">>, <<"", "bo">> >>
    /\ Shown("s1") /\ Shown("s2")


(***************************************************************************)
(* The scan state from one message to the next.                            *)
(***************************************************************************)
\* C23: every call of append_text starts its scan with in_ctcp, bold and underline
\* off and no foreground, whatever the call before left, and the strings it hands
\* to the buffers are those of its own message, the timestamp preference and the
\* clock.
C23_ScanStateClearedPerCall ==
    [][/\ (pc = "idle" /\ pc' = "scan") =>
             in_ctcp' = FALSE /\ fg' = -1 /\ bold' = FALSE /\ underline' = FALSE
       /\ pc' = "flush" =>
             /\ out' = append_text_strings(msg, tbuf, hex_stamp_text).out
             /\ styles' = append_text_strings(msg, tbuf, hex_stamp_text).styles]_vars

\* The message "b" is about to be written in the base style, after a message to
\* the other session that ended with bold, underline and in_ctcp on ("a" in the
\* base style, then the three control bytes).
C23_Witness ==
    /\ pc = "flush" /\ sess = "s1" /\ msg = <<98>>
    /\ "s2" \in DOMAIN session_ui_map
    /\ session_ui_map["s2"].buffer = <<97, NL>>
    /\ session_ui_map["s2"].style_buffer = <<StyleA, StyleA>>
    /\ in_ctcp = FALSE /\ bold = FALSE /\ underline = FALSE
    /\ out = <<98, NL>> /\ styles = <<StyleA, StyleA>>


(***************************************************************************)
(* Bold and underline together.                                            *)
(***************************************************************************)
\* The foreground of the character about to be emitted: the nick color where the
\* override applies, the foreground of the scan elsewhere.
ForegroundInEffect ==
    IF /\ nick_start >= 0 /\ nick_color >= 0
       /\ out_pos >= nick_start /\ out_pos < nick_start + nick_len
    THEN nick_color ELSE fg

BaseIndex == IF ForegroundInEffect >= 0 THEN 3 + ForegroundInEffect ELSE 0

\* C24: a visible character outside a URL gets the bold-region slot 19 + base
\* index whenever bold is on, with underline on or off and whichever toggle came
\* first, and the underline-region slot 38 + base index with underline alone; the
\* base index is 0 without a foreground and 3 + color with one.
C24_BoldBeforeUnderline ==
    [][CharStep =>
          /\ bold => Last(styles') = StyleA + N_REGION + BaseIndex
          /\ (~bold /\ underline) => Last(styles') = StyleA + 2 * N_REGION + BaseIndex]_vars

\* Underline then bold, then "a": the tag of "a" is slot 19.
C24_Witness ==
    /\ pc = "scan" /\ msg = <<31, 2, 97>> /\ p = 4
    /\ bold /\ underline /\ fg = -1
    /\ out = StampPrefix \o <<97>>
    /\ Last(styles) = StyleA + N_REGION


(***************************************************************************)
(* The end of an action body.                                              *)
(***************************************************************************)
\* The bytes of s from index i up to the first 0x01 or the end.
RECURSIVE UpToDelimiter(_, _)
UpToDelimiter(s, i) ==
    IF i > Len(s) \/ s[i] = 1 THEN << >> ELSE <<s[i]>> \o UpToDelimiter(s, i + 1)

\* C25: for a message that begins with the ACTION marker the visible text is the
\* timestamp prefix, "* " and the body up to the first 0x01 or the end of the
\* message: no 0x01 and nothing that follows one is visible.
C25_ActionBodyEndsAtDelimiter ==
    (pc = "flush" /\ is_action(msg)) =>
        LET shown == StampPrefix \o <<42, SP>> \o UpToDelimiter(msg, 9)
        IN  /\ out = IF Last(shown) = NL THEN shown ELSE Append(shown, NL)
            /\ 1 \notin Range(out)


(***************************************************************************)
(* The spans of spell_find_words.  A codepoint is named by the index of    *)
(* its first byte.                                                         *)
(***************************************************************************)
\* The indices where a codepoint of the text starts.
CodepointStarts(text) == { i \in 1..Len(text) : text[i] \notin 128..191 }

Alphabetic(text, i) == g_unichar_isalpha(g_utf8_get_char(text, i))

\* Alphabetic, an apostrophe or a hyphen.
WordCodepoint(text, i) == Alphabetic(text, i) \/ text[i] \in {39, 45}

\* The codepoint at index i is the first of the text or follows one that is not
\* alphabetic.
AfterNonAlphabetic(text, i) ==
    \A j \in CodepointStarts(text) :
        (j < i /\ \A m \in CodepointStarts(text) : m < i => m <= j) => ~Alphabetic(text, j)

\* The codepoints of the span: start and end are 0-based byte offsets, end excluded.
InSpan(span, i) == span.start < i /\ i <= span.end

\* C26: the spans of spell_find_words are inside the text, in strictly increasing
\* order and apart; each starts at an alphabetic codepoint that is the first of the
\* text or follows a non-alphabetic one, holds only alphabetic codepoints,
\* apostrophes and hyphens, and ends at the end of the text or before a codepoint
\* that is none of these; every alphabetic codepoint is in exactly one span; and
\* the call made again on the same text, ignore set and dictionaries gives the
\* same spans.
C26_FindWordsSpans ==
    ret.op = "spell_find_words" =>
        LET text == ret.text
            val  == ret.val
            cps  == CodepointStarts(text)
        IN  /\ \A k \in 1..Len(val) :
                  /\ 0 <= val[k].start /\ val[k].start < val[k].end
                  /\ val[k].end <= Len(text)
                  /\ k < Len(val) =>
                        /\ val[k].start < val[k + 1].start
                        /\ val[k].end <= val[k + 1].start
                  /\ val[k].start + 1 \in cps
                  /\ Alphabetic(text, val[k].start + 1)
                  /\ AfterNonAlphabetic(text, val[k].start + 1)
                  /\ \A i \in cps : InSpan(val[k], i) => WordCodepoint(text, i)
                  /\ \/ val[k].end = Len(text)
                     \/ /\ val[k].end + 1 \in cps
                        /\ ~WordCodepoint(text, val[k].end + 1)
            /\ \A i \in cps :
                  Alphabetic(text, i) =>
                      \E k \in 1..Len(val) :
                          /\ InSpan(val[k], i)
                          /\ \A j \in 1..Len(val) : InSpan(val[j], i) => j = k
            /\ val = spell_find_words(text)

\* "-e'" with an e-acute: one span, from the letter to the end of the text, the
\* apostrophe included and the leading hyphen left out.
C26_Witness ==
    /\ ret.op = "spell_find_words"
    /\ ret.text = <<45, 195, 169, 39>>
    /\ Len(ret.val) = 1
    /\ ret.val[1].start = 1 /\ ret.val[1].end = 4


(***************************************************************************)
(* The dictionaries after the preferences were saved.                      *)
(***************************************************************************)
\* The dictionaries spell_init_broker loads for the language list langs.
RequestedDicts(langs) ==
    IF request_dicts(langs, 1) = << >> /\ "en" \in installed
    THEN <<"en">> ELSE request_dicts(langs, 1)

\* C27: after the start and any sequence of preference saves, when spell checking
\* is enabled, the provider is available and a broker is held, the loaded
\* dictionaries are those of the configured language list (or the "en" fallback),
\* also for a list that was changed while spell checking was disabled.
C27_DictsFollowLanguageList ==
    (hex_gui_input_spell /\ have_enchant /\ spell_broker # "null") =>
        spell_dicts = RequestedDicts(hex_text_spell_langs)


(***************************************************************************)
(* The style tags and the style table.                                     *)
(***************************************************************************)
\* The slot of a tag is one build_style_table assigns, inside the table.
AssignedSlot(tag) ==
    /\ tag - StyleA \in 0..(STYLE_TABLE_SIZE - 1)
    /\ tag - StyleA \in build_style_table
    /\ tag - StyleA \notin {20, 21, 39, 40}

\* C28: every style tag append_text emits is a slot that build_style_table
\* assigns, inside the 58 entries registered with the display, and style_for_state
\* gives such a slot for every combination of in_ctcp, bold, underline, hyperlink
\* and foreground (none, a color 0..15, or a larger number).
C28_TagsAreAssignedSlots ==
    /\ \A i \in 1..Len(styles) : AssignedSlot(styles[i])
    /\ ret.op = "style_for_state" => AssignedSlot(ret.val)

\* "<\x02>": a base tag, a tag of the bold region with a nick color (slot 24), and
\* the base tag of the newline.
C28_Witness ==
    /\ pc = "flush" /\ msg = <<60, 2, 62>> /\ tbuf = << >>
    /\ styles = <<StyleA, StyleA + N_REGION + 3 + 2, StyleA>>


(***************************************************************************)
(* The input box: the word that is replaced and the word that is looked    *)
(* up.                                                                     *)
(***************************************************************************)
\* The index of the first byte of the character at position pos.
ClickedIndex(val, pos) == skip_chars(val, 1, pos)

\* C29: when a suggestion is picked, the word at the clicked position is replaced
\* by it and every other byte of the text stays as it was, also when the same
\* string occurs earlier in the text.
C29_ReplacesWordAtMark ==
    [][(ret'.op = "handle" /\ ret'.pick >= 0) =>
          LET i  == ClickedIndex(input_value, mark_pos')
              ws == word_start_before(input_value, i)
              we == word_end_after(input_value, i)
          IN  /\ SubSeq(input_value, ws, we - 1) = ret'.word
              /\ input_value' = SubSeq(input_value, 1, ws - 1) \o ret'.new_word
                                   \o SubSeq(input_value, we, Len(input_value))]_vars


\* C30: for every span that spell_find_words reports as misspelled in the text of
\* the input box and every character position inside the span, get_word_at gives
\* the word of the span, so spell_check_word rejects it and the menu is offered,
\* also for a word that follows an apostrophe or a hyphen.
C30_ClickedWordIsDrawnWord ==
    \A k \in 1..Len(spell_find_words(input_value)) :
        LET span == spell_find_words(input_value)[k]
        IN  span.misspelled =>
                \A pos \in 0..(char_count(input_value, 1) - 1) :
                    InSpan(span, ClickedIndex(input_value, pos)) =>
                        /\ get_word_at(input_value, pos) = SpanWord(input_value, span)
                        /\ ~spell_check_word(get_word_at(input_value, pos))

====
